---- MODULE Spec2Model ----
(***************************************************************************)
(* State-machine model of the eno-world-simulation module: the multi-world *)
(* batch scheduler (scheduler.rs, world/game_world.rs) and the agent       *)
(* need/decision engine (reducers/individual.rs, systems/needs.rs,         *)
(* systems/priorities.rs).                                                 *)
(*                                                                         *)
(* Every reducer is one atomic action: SpacetimeDB runs a reducer as one   *)
(* serialised transaction, and a reducer that returns Err (or panics)      *)
(* leaves the tables as they were.                                         *)
(*                                                                         *)
(* f32 quantities are held as integers in thousandths (100.0 is 100000).   *)
(* Wall-clock values are milliseconds, counted from the instant the model  *)
(* starts (the code only ever compares and adds clock values).             *)
(***************************************************************************)
EXTENDS Integers, Sequences, FiniteSets, TLC

VARIABLES
    now,               \* wall clock, ms (SystemTime::now / Instant)
    scheduler_config,  \* table scheduler_config: NoRecord or the row with id 1
    game_world,        \* table game_world: sequence of rows, in iteration order
    simulation_time,   \* table simulation_time: NoRecord or the row with id 1
    individual,        \* table individual: sequence of rows, in iteration order
    building,          \* table building: sequence of rows, in iteration order
    location_capability,     \* table location_capability, in iteration order
    movement_event,          \* table movement_event, in insertion order
    need_fulfillment_event,  \* table need_fulfillment_event, in insertion order
    autoticker_config,       \* table autoticker_config: NoRecord or the row with id 1
    calls_made,        \* reducer calls made so far, where their number is bounded
    last_call          \* the last reducer call: its name, arguments, result and trace

schedVars == <<now, scheduler_config, game_world>>

vars ==
    <<now, scheduler_config, game_world, simulation_time, individual, building,
      location_capability, movement_event, need_fulfillment_event,
      autoticker_config, calls_made, last_call>>

NoRecord == [absent |-> TRUE]

agentVars ==
    <<simulation_time, individual, building, location_capability, movement_event,
      need_fulfillment_event, autoticker_config, calls_made>>

\* no simulation: the tables of the agent engine are empty
NoAgents ==
    /\ simulation_time = NoRecord
    /\ individual = << >>
    /\ building = << >>
    /\ location_capability = << >>
    /\ movement_event = << >>
    /\ need_fulfillment_event = << >>
    /\ autoticker_config = NoRecord
    /\ calls_made = 0

Min(a, b) == IF a <= b THEN a ELSE b
Max(a, b) == IF a >= b THEN a ELSE b

(***************************************************************************)
(* Bounds of the model.                                                    *)
(***************************************************************************)
NumWorlds == 3          \* rows of game_world
MaxClockTicks == 1      \* the wall clock makes up to this many steps
MaxBatchSize == 2       \* largest batch_size given to configure_scheduler


(***************************************************************************)
(* world/mod.rs, world/game_world.rs: the game_world table.                *)
(* The columns name, climate_zone, active_players and total_population are *)
(* never read by the scheduler or by advance_world_time and are left out.  *)
(***************************************************************************)
NarrativeSpeed == {"Paused", "Slow", "Normal", "Fast"}

\* seasons that change a day late
calculate_season_DayLate(day_of_year) ==
    IF day_of_year >= 1 /\ day_of_year <= 91 THEN "Spring"
    ELSE IF day_of_year >= 92 /\ day_of_year <= 181 THEN "Summer"
    ELSE IF day_of_year >= 182 /\ day_of_year <= 271 THEN "Autumn"
    ELSE IF day_of_year >= 272 /\ day_of_year <= 360 THEN "Winter"
    ELSE "Spring"

\* calculate_season: the season of a day of the year
calculate_season(day_of_year) ==
    IF day_of_year >= 1 /\ day_of_year <= 90 THEN "Spring"
    ELSE IF day_of_year >= 91 /\ day_of_year <= 180 THEN "Summer"
    ELSE IF day_of_year >= 181 /\ day_of_year <= 270 THEN "Autumn"
    ELSE IF day_of_year >= 271 /\ day_of_year <= 360 THEN "Winter"
    ELSE "Spring"

\* next_update_ms of a world created by create_game_world: now + 60000
CreateNextUpdateMs == 60000

\* the row create_game_world inserts for world `id` at wall-clock time t
NewGameWorld(id, t) ==
    [ id |-> id,
      current_cycle |-> 0,
      current_day |-> 1,
      total_hours |-> 0,
      season |-> "Spring",
      narrative_speed |-> "Normal",
      last_update_ms |-> t,
      next_update_ms |-> t + CreateNextUpdateMs,
      is_active |-> TRUE ]

\* i64::MAX stands for "never": larger than every clock value of the model
I64Max == 2000000000
SlowIntervalMs == 3600000
NormalIntervalMs == 3600000 \div 7
FastIntervalMs == 3600000 \div 30

\* advance_world_time: match world.narrative_speed { ... }
next_update_interval_ms(speed) ==
    CASE speed = "Paused" -> I64Max
      [] speed = "Slow"   -> SlowIntervalMs
      [] speed = "Normal" -> NormalIntervalMs
      [] speed = "Fast"   -> FastIntervalMs

\* index of the row with primary key `id` in table `tbl`, 0 when there is none
RowIndex(tbl, id) ==
    IF \E i \in 1..Len(tbl) : tbl[i].id = id
    THEN CHOOSE i \in 1..Len(tbl) : tbl[i].id = id
    ELSE 0

\* a time advance that leaves the world due as it was
advance_world_time_NoReschedule(gw, world_id, hours, t, clockErr) ==
    LET i == RowIndex(gw, world_id) IN
    IF i = 0 THEN [ok |-> FALSE, gw |-> gw]
    ELSE IF clockErr THEN [ok |-> FALSE, gw |-> gw]
    ELSE
      LET world == gw[i]
          total_hours == world.total_hours + hours
          total_days == total_hours \div 24
          current_day == (total_days % 360) + 1
          updated == [world EXCEPT
                        !.total_hours = total_hours,
                        !.current_cycle = total_days \div 360,
                        !.current_day = current_day,
                        !.season = calculate_season(current_day),
                        !.last_update_ms = t]
      IN [ok |-> TRUE, gw |-> [gw EXCEPT ![i] = updated]]

\* advance_world_time(ctx, world_id, hours) run at wall-clock time t.
\* clockErr: SystemTime::now() lies before the epoch (the "Time error" branch).
\* Returns the outcome and the table after the call.
advance_world_time(gw, world_id, hours, t, clockErr) ==
    LET i == RowIndex(gw, world_id) IN
    IF i = 0 THEN [ok |-> FALSE, gw |-> gw]
    ELSE IF clockErr THEN [ok |-> FALSE, gw |-> gw]
    ELSE
      LET world == gw[i]
          total_hours == world.total_hours + hours
          total_days == total_hours \div 24
          current_day == (total_days % 360) + 1
          updated == [world EXCEPT
                        !.total_hours = total_hours,
                        !.current_cycle = total_days \div 360,
                        !.current_day = current_day,
                        !.season = calculate_season(current_day),
                        !.last_update_ms = t,
                        !.next_update_ms = t + next_update_interval_ms(world.narrative_speed)]
      IN [ok |-> TRUE, gw |-> [gw EXCEPT ![i] = updated]]

(***************************************************************************)
(* scheduler.rs                                                            *)
(***************************************************************************)
DefaultBatchSize == 10
DefaultMaxProcessingTimeMs == 30000
DefaultRunIntervalMs == 300000

\* ProcessingStats::default()
DefaultStats ==
    [ worlds_processed |-> 0, events_generated |-> 0, processing_time_ms |-> 0,
      errors_encountered |-> 0, narrative_events |-> 0, economic_events |-> 0,
      political_events |-> 0, natural_events |-> 0 ]

\* performance_stats is "{}" until the first batch has run
EmptyJson == [empty |-> TRUE]

\* the row initialize_scheduler inserts at wall-clock time t
NewSchedulerConfig(t) ==
    [ id |-> 1,
      enabled |-> TRUE,
      batch_size |-> DefaultBatchSize,
      max_processing_time_ms |-> DefaultMaxProcessingTimeMs,
      last_run_ms |-> t,
      next_run_ms |-> t + DefaultRunIntervalMs,
      run_interval_ms |-> DefaultRunIntervalMs,
      performance_stats |-> EmptyJson ]

\* a time advance that takes every speed for Normal
hours_to_advance_Uniform(speed) == 24

\* process_single_world: match world.narrative_speed { ... }
hours_to_advance(speed) ==
    CASE speed = "Paused" -> 0
      [] speed = "Slow"   -> 1
      [] speed = "Normal" -> 24
      [] speed = "Fast"   -> 168

\* a filter that forgets the narrative speed
IsDue_IgnoringPause(w, t) ==
    /\ w.is_active
    /\ w.next_update_ms <= t

\* get_worlds_needing_update: the clones of the rows that are due at time t,
\* in the table's iteration order
IsDue(w, t) ==
    /\ w.is_active
    /\ w.narrative_speed # "Paused"
    /\ w.next_update_ms <= t

get_worlds_needing_update(gw, t) == SelectSeq(gw, LAMBDA w : IsDue(w, t))

\* a batch that is not cut to batch_size
Take_Unlimited(s, n) == s

\* Iterator::take(n)
Take(s, n) == SubSeq(s, 1, Min(n, Len(s)))

(***************************************************************************)
(* The collaborators called by process_single_world (economics, political, *)
(* natural, narrative) are outside the model.  What each call does in one  *)
(* world's tick is an input of the tick, `env`:                            *)
(*   env.fails   the calls that return Err in this tick,                   *)
(*   env.events  how many ids each generate_*_events call returns on Ok.   *)
(***************************************************************************)
\* one call of a collaborator, as seen by the scheduler
Call(sys, env) == [sys |-> sys, ok |-> sys \notin env.fails]

\* the create_narrative_event calls made for the ids returned by generator `gen`
NarrativeCalls(gen, env) ==
    IF gen \in env.fails THEN << >>
    ELSE [k \in 1..env.events |-> Call("create_narrative_event", env)]

\* ids returned by generator `gen` (0 when it returned Err)
EventsFrom(gen, env) == IF gen \in env.fails THEN 0 ELSE env.events

\* narrative events counted for generator `gen`: one per create_narrative_event Ok
NarrativeFrom(gen, env) ==
    IF "create_narrative_event" \in env.fails THEN 0 ELSE EventsFrom(gen, env)

\* the daily test passing at every hour
IsDailyAligned_Hourly(current_hour) == current_hour % 1 = 0

\* the "daily" test of process_single_world: current_hour % 24 == 0
IsDailyAligned(current_hour) == current_hour % 24 = 0

\* a tick that gives up at the first collaborator that returns Err
SubsystemCalls_StopAtFailure(current_hour, env) ==
    LET all == << Call("update_market_prices", env),
                  Call("process_trade_routes", env),
                  Call("generate_economic_events", env) >>
               \o NarrativeCalls("generate_economic_events", env)
               \o << Call("update_faction_status", env),
                     Call("generate_political_events", env) >>
               \o NarrativeCalls("generate_political_events", env)
               \o << Call("process_political_events", env),
                     Call("update_climate_conditions", env),
                     Call("generate_natural_events", env),
                     Call("process_natural_events", env) >>
               \o (IF IsDailyAligned(current_hour)
                   THEN << Call("update_seasonal_activities", env),
                           Call("update_phenological_phases", env),
                           Call("update_world_stats", env),
                           Call("periodic_enonomics_sync", env) >>
                   ELSE << Call("update_world_stats", env) >>)
        failed == { k \in 1..Len(all) : ~all[k].ok }
    IN IF failed = {} THEN all
       ELSE SubSeq(all, 1, CHOOSE k \in failed : \A j \in failed : k <= j)

\* steps 2..6 of process_single_world: the collaborator calls, in program order
SubsystemCalls(current_hour, env) ==
    << Call("update_market_prices", env),
       Call("process_trade_routes", env),
       Call("generate_economic_events", env) >>
    \o NarrativeCalls("generate_economic_events", env)
    \o << Call("update_faction_status", env),
          Call("generate_political_events", env) >>
    \o NarrativeCalls("generate_political_events", env)
    \o << Call("process_political_events", env),
          Call("update_climate_conditions", env),
          Call("generate_natural_events", env),
          Call("process_natural_events", env) >>
    \o (IF IsDailyAligned(current_hour)
        THEN << Call("update_seasonal_activities", env),
                Call("update_phenological_phases", env) >>
        ELSE << >>)
    \o << Call("update_world_stats", env) >>
    \o (IF IsDailyAligned(current_hour)
        THEN << Call("periodic_enonomics_sync", env) >>
        ELSE << >>)

\* the statistics process_single_world returns on Ok
WorldStats(env) ==
    LET economic == EventsFrom("generate_economic_events", env)
        political == EventsFrom("generate_political_events", env)
        natural == EventsFrom("generate_natural_events", env)
        narrative == NarrativeFrom("generate_economic_events", env)
                     + NarrativeFrom("generate_political_events", env)
    IN [DefaultStats EXCEPT
          !.economic_events = economic,
          !.political_events = political,
          !.natural_events = natural,
          !.narrative_events = narrative,
          !.events_generated = narrative + economic + political + natural]

\* process_single_world(ctx, &world) at wall-clock time t.  `world` is the clone
\* taken by get_worlds_needing_update; gw is the table as it is now.
\* Returns: ok (Ok/Err), the table afterwards, the returned statistics, the
\* hours the world was advanced by, the hour handed to the collaborators and
\* the calls made, in order.
process_single_world(gw, world, t, env) ==
    LET hours == hours_to_advance(world.narrative_speed)
        adv == IF hours > 0
               THEN advance_world_time(gw, world.id, hours, t,
                                       "advance_world_time" \in env.fails)
               ELSE [ok |-> TRUE, gw |-> gw]
        current_hour == world.total_hours + hours
        advCall == IF hours > 0
                   THEN << [sys |-> "advance_world_time", ok |-> adv.ok] >>
                   ELSE << >>
    IN IF ~adv.ok
       THEN [ok |-> FALSE, gw |-> gw, stats |-> DefaultStats, hours |-> hours,
             current_hour |-> current_hour, calls |-> advCall]
       ELSE [ok |-> TRUE, gw |-> adv.gw, stats |-> WorldStats(env), hours |-> hours,
             current_hour |-> current_hour,
             calls |-> advCall \o SubsystemCalls(current_hour, env)]

\* a loop that never looks at the clock
TimeoutNever(elapsed, max_processing_time_ms) == FALSE

\* the timeout test at the head of the batch loop
TimeoutReached(elapsed, max_processing_time_ms) == elapsed > max_processing_time_ms

\* the Ok arm of the batch loop: add one world's statistics
AddWorldStats(stats, ws) ==
    [stats EXCEPT
       !.worlds_processed = @ + 1,
       !.events_generated = @ + ws.events_generated,
       !.narrative_events = @ + ws.narrative_events,
       !.economic_events = @ + ws.economic_events,
       !.political_events = @ + ws.political_events,
       !.natural_events = @ + ws.natural_events]

\* the Err arm of the batch loop
AddWorldError(stats) == [stats EXCEPT !.errors_encountered = @ + 1]

\* the state of the batch loop before any world
LoopStart(gw) ==
    [gw |-> gw, elapsed |-> 0, stats |-> DefaultStats, timed_out |-> FALSE,
     worlds |-> << >>]

\* the body of the batch loop once process_single_world has returned res
\* (Ok or Err): the match on the result, and the trace entry of the world
LoopBody(st, world, start, dur, res) ==
    CHOOSE next \in
        { [gw |-> r.gw,
           elapsed |-> st.elapsed + dur,
           stats |-> IF r.ok THEN AddWorldStats(st.stats, r.stats)
                     ELSE AddWorldError(st.stats),
           timed_out |-> FALSE,
           worlds |-> Append(st.worlds,
                        [id |-> world.id, ok |-> r.ok, hours |-> r.hours,
                         current_hour |-> r.current_hour, calls |-> r.calls,
                         at |-> start + st.elapsed])] : r \in {res} } : TRUE

\* a loop that gives up the batch at the first world that returned Err
LoopStep_AbortOnError(st, world, start, max_ms, env, dur) ==
    IF st.timed_out \/ st.stats.errors_encountered > 0 \/ st.elapsed > max_ms
    THEN [st EXCEPT !.timed_out = TRUE]
    ELSE LoopBody(st, world, start, dur,
                  process_single_world(st.gw, world, start + st.elapsed, env))

\* one iteration of `for world in worlds_batch`: st is the loop state, world
\* the next clone of the batch, dur the wall-clock time its processing takes
LoopStep(st, world, start, max_ms, env, dur) ==
    IF st.timed_out \/ TimeoutReached(st.elapsed, max_ms)
    THEN [st EXCEPT !.timed_out = TRUE]
    ELSE LoopBody(st, world, start, dur,
                  process_single_world(st.gw, world, start + st.elapsed, env))

\* the whole loop over the first n clones of the batch (the loop state after
\* n - 1 iterations is the one element of the set st ranges over)
RECURSIVE BatchLoop(_, _, _, _, _, _, _)
BatchLoop(gw, batch, n, start, max_ms, envs, durs) ==
    IF n = 0 THEN LoopStart(gw)
    ELSE CHOOSE next \in
             { LoopStep(st, batch[n], start, max_ms, envs[n], durs[n]) :
                 st \in { BatchLoop(gw, batch, n - 1, start, max_ms, envs, durs) } } : TRUE

\* update_scheduler_stats at wall-clock time t
update_scheduler_stats(config, stats, t) ==
    [config EXCEPT
       !.last_run_ms = t,
       !.next_run_ms = t + config.run_interval_ms,
       !.performance_stats = [last_run |-> stats, timestamp |-> t]]

(***************************************************************************)
(* The record of the last reducer call since the clock last moved (an      *)
(* observer of the program, not part of its tables): op, args, result      *)
(* ("Ok" or "Err") and, for                                                *)
(* run_world_simulation_batch, what the call did:                          *)
(*   ran        the call got past the enabled test                         *)
(*   start      wall-clock time at the start of the call                   *)
(*   due        ids returned by get_worlds_needing_update, in order        *)
(*   batch      ids of worlds_batch, in order                              *)
(*   worlds     one entry per world whose processing was started           *)
(*   timed_out  the loop was left through the timeout break                *)
(*   stats      the ProcessingStats handed to update_scheduler_stats       *)
(***************************************************************************)
NoCall == [op |-> "none", args |-> << >>, result |-> "Ok", out |-> NoRecord]

Returned(op, args, result) ==
    [op |-> op, args |-> args, result |-> result, out |-> NoRecord]

NotRun == [ran |-> FALSE]

Ids(rows) == [i \in 1..Len(rows) |-> rows[i].id]

\* the end of run_world_simulation_batch, `last` being the state the loop was
\* left in: the processing time is taken, update_scheduler_stats is called
BatchEnd(config, t, worlds_to_update, worlds_batch, last) ==
    CHOOSE res \in
        { LET stats == [loop.stats EXCEPT !.processing_time_ms = loop.elapsed]
              end == t + loop.elapsed
          IN [config |-> update_scheduler_stats(config, stats, end),
              gw |-> loop.gw,
              now |-> end,
              call |-> [op |-> "run_world_simulation_batch", args |-> << >>,
                        result |-> "Ok",
                        out |-> [ran |-> TRUE, start |-> t,
                                 due |-> Ids(worlds_to_update),
                                 batch |-> Ids(worlds_batch),
                                 worlds |-> loop.worlds,
                                 timed_out |-> loop.timed_out,
                                 stats |-> stats]]] : loop \in {last} } : TRUE

\* a scheduler that records a run in its statistics while it is disabled
run_world_simulation_batch_CountingSkips(config, gw, t, envs, durs) ==
    IF config = NoRecord
    THEN [config |-> config, gw |-> gw, now |-> t,
          call |-> [op |-> "run_world_simulation_batch", args |-> << >>,
                    result |-> "Err", out |-> NotRun]]
    ELSE IF ~config.enabled
    THEN [config |-> update_scheduler_stats(config, DefaultStats, t),
          gw |-> gw, now |-> t,
          call |-> [op |-> "run_world_simulation_batch", args |-> << >>,
                    result |-> "Ok", out |-> NotRun]]
    ELSE
      LET worlds_to_update == get_worlds_needing_update(gw, t)
          worlds_batch == Take(worlds_to_update, config.batch_size)
      IN BatchEnd(config, t, worlds_to_update, worlds_batch,
                  BatchLoop(gw, worlds_batch, Len(worlds_batch), t,
                            config.max_processing_time_ms, envs, durs))

\* run_world_simulation_batch as a function of the tables, the clock and the
\* inputs of the call: envs[i] is what the collaborators do for the i-th world
\* of the batch, durs[i] the wall-clock time that world's processing takes.
\* Returns the tables and the clock after the call, and the call's record.
run_world_simulation_batch(config, gw, t, envs, durs) ==
    IF config = NoRecord
    THEN [config |-> config, gw |-> gw, now |-> t,
          call |-> [op |-> "run_world_simulation_batch", args |-> << >>,
                    result |-> "Err", out |-> NotRun]]
    ELSE IF ~config.enabled
    THEN [config |-> config, gw |-> gw, now |-> t,
          call |-> [op |-> "run_world_simulation_batch", args |-> << >>,
                    result |-> "Ok", out |-> NotRun]]
    ELSE
      LET worlds_to_update == get_worlds_needing_update(gw, t)
          worlds_batch == Take(worlds_to_update, config.batch_size)
      IN BatchEnd(config, t, worlds_to_update, worlds_batch,
                  BatchLoop(gw, worlds_batch, Len(worlds_batch), t,
                            config.max_processing_time_ms, envs, durs))

\* the length of worlds_batch in a call made now (0 when the call returns early)
BatchLen(config, gw, t) ==
    IF config = NoRecord \/ ~config.enabled THEN 0
    ELSE Len(Take(get_worlds_needing_update(gw, t), config.batch_size))

\* a reducer that makes the default configuration when it finds none
set_scheduler_enabled_Defaulting(config, enabled, t) ==
    LET found == IF config = NoRecord THEN NewSchedulerConfig(t) ELSE config
    IN [config |-> [found EXCEPT
                      !.enabled = enabled,
                      !.next_run_ms = IF enabled THEN t + found.run_interval_ms
                                      ELSE @],
        call |-> Returned("set_scheduler_enabled", <<enabled>>, "Ok")]

\* set_scheduler_enabled(ctx, enabled) at wall-clock time t
set_scheduler_enabled(config, enabled, t) ==
    IF config = NoRecord
    THEN [config |-> config,
          call |-> Returned("set_scheduler_enabled", <<enabled>>, "Err")]
    ELSE [config |-> [config EXCEPT
                        !.enabled = enabled,
                        !.next_run_ms = IF enabled THEN t + config.run_interval_ms
                                        ELSE @],
          call |-> Returned("set_scheduler_enabled", <<enabled>>, "Ok")]

\* configure_scheduler(ctx, batch_size, run_interval_ms, max_processing_time_ms)
configure_scheduler(config, batch_size, run_interval_ms, max_processing_time_ms) ==
    LET args == <<batch_size, run_interval_ms, max_processing_time_ms>> IN
    IF config = NoRecord
    THEN [config |-> config, call |-> Returned("configure_scheduler", args, "Err")]
    ELSE [config |-> [config EXCEPT
                        !.batch_size = batch_size,
                        !.run_interval_ms = run_interval_ms,
                        !.max_processing_time_ms = max_processing_time_ms],
          call |-> Returned("configure_scheduler", args, "Ok")]

(***************************************************************************)
(* Inputs of the scheduler model.                                          *)
(***************************************************************************)
\* the wall clock moves in steps of the default run interval, the period at
\* which the scheduler is meant to be called
ClockStepMs == DefaultRunIntervalMs
StartNow == CreateNextUpdateMs
MaxNow == StartNow + MaxClockTicks * ClockStepMs

\* wall-clock time the processing of one world takes: none that the
\* millisecond clock can see, exactly the default time budget, or a stall of
\* one clock step
Durations == {0, DefaultMaxProcessingTimeMs, ClockStepMs}

\* what the collaborators do in one world's tick
Quiet == [fails |-> {}, events |-> 1]
SchedEnvs ==
    { Quiet,
      [fails |-> {"generate_political_events"}, events |-> 1],
      [fails |-> {"advance_world_time"}, events |-> 1] }

\* inputs of one batch of n worlds: nothing out of the ordinary, or one world
\* meets a failure, or one world stalls
AllQuiet(n) == [i \in 1..n |-> Quiet]
NoStall(n) == [i \in 1..n |-> 0]
QuietInputs(n) == { <<AllQuiet(n), NoStall(n)>> }
BatchInputs(n) ==
    QuietInputs(n)
    \cup { <<[AllQuiet(n) EXCEPT ![i] = e], NoStall(n)>> : i \in 1..n, e \in SchedEnvs }
    \cup { <<AllQuiet(n), [NoStall(n) EXCEPT ![i] = d]>> : i \in 1..n, d \in Durations }

\* arguments given to configure_scheduler: a batch size smaller than the
\* catalog with the default times, and a zero for each of the three arguments
BatchArgs == { <<MaxBatchSize, DefaultRunIntervalMs, DefaultMaxProcessingTimeMs>> }
ConfigArgs ==
    BatchArgs
    \cup { <<0, DefaultRunIntervalMs, DefaultMaxProcessingTimeMs>>,
           <<MaxBatchSize, 0, DefaultMaxProcessingTimeMs>>,
           <<MaxBatchSize, DefaultRunIntervalMs, 0>> }

\* the rows of game_world at the start, at time StartNow: worlds created by
\* create_game_world at time 0 (Normal, active, due from StartNow on), of which
\* at most one has another narrative speed or is inactive
WorldModes ==
    { <<"Normal", TRUE>>, <<"Paused", TRUE>>, <<"Slow", TRUE>>, <<"Fast", TRUE>>,
      <<"Normal", FALSE>> }
CreatedMode == <<"Normal", TRUE>>

InitWorld(id, mode) ==
    [NewGameWorld(id, 0) EXCEPT !.narrative_speed = mode[1], !.is_active = mode[2]]

Catalogs ==
    { [i \in 1..NumWorlds |-> InitWorld(i, modes[i])] :
        modes \in { m \in [1..NumWorlds -> WorldModes] :
                      \A i, j \in 1..NumWorlds :
                          m[i] # CreatedMode /\ m[j] # CreatedMode => i = j } }

(***************************************************************************)
(* Actions of the scheduler.                                               *)
(***************************************************************************)
Init ==
    /\ now = StartNow
    /\ scheduler_config = NoRecord
    /\ game_world \in Catalogs
    /\ NoAgents
    /\ last_call = NoCall

\* wall-clock time passes
ClockTick ==
    /\ now + ClockStepMs <= MaxNow
    /\ now' = now + ClockStepMs
    /\ last_call' = NoCall
    /\ UNCHANGED <<scheduler_config, game_world>>
    /\ UNCHANGED agentVars

\* reducer initialize_scheduler; inserting a second row with id 1 panics and
\* leaves the table as it was
InitializeScheduler ==
    /\ scheduler_config = NoRecord
    /\ scheduler_config' = NewSchedulerConfig(now)
    /\ last_call' = Returned("initialize_scheduler", << >>, "Ok")
    /\ UNCHANGED <<now, game_world>>
    /\ UNCHANGED agentVars

\* reducer run_world_simulation_batch, called with inputs in[1] (collaborators)
\* and in[2] (durations)
BatchCall(in) ==
    LET r == run_world_simulation_batch(scheduler_config, game_world, now, in[1], in[2])
    IN /\ now <= MaxNow
       /\ scheduler_config' = r.config
       /\ game_world' = r.gw
       /\ now' = r.now
       /\ last_call' = r.call
       /\ UNCHANGED agentVars

RunWorldSimulationBatch ==
    \E in \in BatchInputs(BatchLen(scheduler_config, game_world, now)) : BatchCall(in)

\* the same reducer when no collaborator fails and no world stalls
RunQuietBatch ==
    \E in \in QuietInputs(BatchLen(scheduler_config, game_world, now)) : BatchCall(in)

\* reducer set_scheduler_enabled
SetSchedulerEnabled ==
    \E enabled \in BOOLEAN :
        LET r == set_scheduler_enabled(scheduler_config, enabled, now)
        IN /\ scheduler_config' = r.config
           /\ last_call' = r.call
           /\ UNCHANGED <<now, game_world>>
           /\ UNCHANGED agentVars

\* reducer configure_scheduler
ConfigureCall(a) ==
    LET r == configure_scheduler(scheduler_config, a[1], a[2], a[3])
    IN /\ scheduler_config' = r.config
       /\ last_call' = r.call
       /\ UNCHANGED <<now, game_world>>
       /\ UNCHANGED agentVars

\* an operator sets the batch size below the size of the catalog
ConfigureBatchSize == \E a \in BatchArgs : ConfigureCall(a)

\* an operator configures the scheduler with any of ConfigArgs
ConfigureScheduler == \E a \in ConfigArgs : ConfigureCall(a)

\* The scheduler under failures and stalls of the collaborators.
Next ==
    \/ ClockTick
    \/ InitializeScheduler
    \/ RunWorldSimulationBatch
    \/ SetSchedulerEnabled
    \/ ConfigureBatchSize

Spec == Init /\ [][Next]_vars

\* The scheduler under every configuration, with well-behaved collaborators.
ConfigNext ==
    \/ ClockTick
    \/ InitializeScheduler
    \/ RunQuietBatch
    \/ SetSchedulerEnabled
    \/ ConfigureScheduler

ConfigSpec == Init /\ [][ConfigNext]_vars

(***************************************************************************)
(* The scheduler called for ever by its timer.  The code only compares      *)
(* stored clock values with the present and adds intervals to the present, *)
(* and reads total_hours only through current_hour % 24; so the clock is   *)
(* held relative to the present (now stays put, and when time passes every *)
(* stored clock value moves back by as much, a value further back than the *)
(* model's origin being kept at the origin), and worlds are held modulo    *)
(* one day of simulated time.  This keeps the run of an unending scheduler *)
(* within finitely many states.                                            *)
(***************************************************************************)
ClockOrigin == 0
HoursPerDay == 24

\* clock value ts seen after `by` ms have passed
Elapse(ts, by) == Max(ts - by, ClockOrigin)

\* a world row modulo one day of simulated time
WithinDay(w) ==
    [w EXCEPT !.total_hours = @ % HoursPerDay,
              !.current_cycle = 0,
              !.current_day = 1,
              !.season = calculate_season(1)]

\* a world row after `by` ms have passed
WorldLater(w, by) ==
    [w EXCEPT !.last_update_ms = Elapse(@, by),
              !.next_update_ms = Elapse(@, by)]

\* the scheduler_config row after `by` ms have passed
ConfigLater(config, by) ==
    [config EXCEPT
       !.last_run_ms = Elapse(@, by),
       !.next_run_ms = Elapse(@, by),
       !.performance_stats =
           IF @ = EmptyJson THEN @ ELSE [@ EXCEPT !.timestamp = Elapse(@, by)]]

\* the catalogs without a Slow world (whose interval is twelve clock steps)
TimerCatalogs ==
    { c \in Catalogs : \A i \in 1..Len(c) : c[i].narrative_speed # "Slow" }

\* the scheduler has been initialised and given a batch size below the size
\* of the catalog; it stays enabled
TimerInit ==
    /\ now = StartNow
    /\ scheduler_config =
           configure_scheduler(NewSchedulerConfig(StartNow), MaxBatchSize,
                               DefaultRunIntervalMs, DefaultMaxProcessingTimeMs).config
    /\ game_world \in TimerCatalogs
    /\ NoAgents
    /\ last_call = NoCall

\* one clock step passes
TimePasses ==
    /\ game_world' = [i \in 1..Len(game_world) |-> WorldLater(game_world[i], ClockStepMs)]
    /\ scheduler_config' = ConfigLater(scheduler_config, ClockStepMs)
    /\ last_call' = NoCall
    /\ UNCHANGED now
    /\ UNCHANGED agentVars

\* the timer calls run_world_simulation_batch; no collaborator fails and no
\* world stalls
TimerFires ==
    \E in \in QuietInputs(BatchLen(scheduler_config, game_world, now)) :
        \E r \in { run_world_simulation_batch(scheduler_config, game_world, now,
                                              in[1], in[2]) } :
           /\ scheduler_config' = r.config
           /\ game_world' = [i \in 1..Len(r.gw) |-> WithinDay(r.gw[i])]
           /\ now' = r.now
           /\ last_call' = r.call
           /\ UNCHANGED agentVars

TimerNext == TimePasses \/ TimerFires

\* time keeps passing and the timer keeps calling the scheduler
TimerSpec ==
    /\ TimerInit
    /\ [][TimerNext]_vars
    /\ WF_vars(TimePasses)
    /\ WF_vars(TimerFires)

(***************************************************************************)
(* systems/modifiers.rs: the constants the agent engine uses, in           *)
(* thousandths.  Durations are hours; priority weights are plain factors.  *)
(***************************************************************************)
FOOD_WATER_BASE == -2000
FOOD_WATER_WORKING == -3000
FOOD_WATER_RESTING == -1500
ENVIRONMENT_HAZARDOUS == -3000
ENVIRONMENT_NEUTRAL == -1000
ENVIRONMENT_HEALING == 500
INTIMACY_BASE == -500
REST_BASE == -1500
REST_SLEEPING == 8000
REST_WORKING == -2500
WASTE_BASE == 2000
WASTE_FACILITIES == -50000
THREAT_BASE == -500
THREAT_DANGEROUS == -2000
THREAT_SAFE_BUILDING == 500
INCOME_LIVING_COST == -200
INCOME_WORKING == 5000
INCOME_UNEMPLOYED == -500
STRESS_BASE == -300
STRESS_HIGH_WORKLOAD == -1000
STRESS_RECREATION == 2000
STRESS_LOW_INCOME == -500
STRESS_TO_REST_FACTOR == -100
SAFETY_BASE == -200
SAFETY_AT_HOME == 1000
SAFETY_SAFE_LOCATION == 500
SAFETY_UNSAFE_AREA == -2000
COMMUNITY_BASE == -300
COMMUNITY_EVENT == 3000
PROGRESSION_MEANINGFUL_WORK == 500

MOVE_REST_COST == -2000
WORK_DURATION == 8
WORK_REST_COST == -16000
WORK_STRESS_GAIN == 5000
WORK_INCOME_GAIN == 40000
SLEEP_DURATION == 8
SLEEP_REST_GAIN == 64000
EAT_DURATION == 1
EAT_FOOD_GAIN == 25000
EAT_MEAL_COST == 5000
SOCIALIZE_DURATION == 2
SOCIALIZE_SOCIAL_GAIN == 10000
SOCIALIZE_SOCIAL_CAP == 33300
SOCIALIZE_STRESS_LOSS == -5000
USE_FACILITIES_DURATION == 1
MAINTAIN_DURATION == 4
CLEAN_DURATION == 2

NEED_MAX == 100000
NEED_CRITICAL_LOW == 20000
NEED_ADEQUATE == 50000
NEED_URGENT == 60000
INCOME_MAX == 1000000
INCOME_CRITICAL == 10000
WASTE_CRITICAL == 80000
COMMUNITY_LOW == 10000
COMMUNITY_TARGET == 33400

WASTE_HIGH == 10
FOOD_CRITICAL == 8
REST_CRITICAL == 7
SAFETY_LOW == 6
ENVIRONMENT_LOW == 4
SOCIAL_NEEDS == 2

\* one unit of an f32 quantity, in thousandths
Unit == 1000

\* a clamp that lets every value through
clamp_Unbounded(x, lo, hi) == x

\* f32::clamp
clamp(x, lo, hi) == IF x < lo THEN lo ELSE IF x > hi THEN hi ELSE x

(***************************************************************************)
(* types.rs, tables/individual.rs: statuses and the individual table.      *)
(* Option<u32> is an id or None; ids start at 1.                           *)
(***************************************************************************)
None == 0

\* IndividualStatus::Idle, with the StatusData fields blank
Idle == [kind |-> "Idle", until_hour |-> 0, target_location |-> None,
         target_building |-> None]

\* IndividualStatus::<kind>(StatusData { until_hour, target_location, target_building })
Status(kind, until_hour, target_location, target_building) ==
    [kind |-> kind, until_hour |-> until_hour, target_location |-> target_location,
     target_building |-> target_building]

\* the row create_individual inserts at hour current_hour (name, age and
\* birth_hour are never read by the engine and are left out)
NewIndividual(id, home_id, workplace_id, current_hour) ==
    [ id |-> id,
      current_location_id |-> IF home_id = None THEN 1 ELSE home_id,
      home_id |-> home_id,
      workplace_id |-> workplace_id,
      food_water |-> 70 * Unit,
      environment |-> 80 * Unit,
      intimacy |-> 50 * Unit,
      rest |-> 80 * Unit,
      waste |-> 20 * Unit,
      threat |-> 20 * Unit,
      income |-> 50 * Unit,
      stress |-> 30 * Unit,
      safety |-> 70 * Unit,
      relationship |-> 0,
      social_interaction |-> 0,
      community |-> 20 * Unit,
      achievements |-> 0,
      progression |-> 0,
      specialized_role |-> "None",
      status |-> Idle,
      last_update_hour |-> current_hour ]

(***************************************************************************)
(* systems/needs.rs                                                        *)
(***************************************************************************)
get_level_1_adequacy_x5(self) ==
    self.food_water + self.environment + self.intimacy + self.rest
    + (NEED_MAX - self.waste)

get_level_2_adequacy_x4(self) ==
    self.safety + (NEED_MAX - self.threat) + self.safety + (NEED_MAX - self.stress)

get_level_3_adequacy_x3(self) ==
    self.relationship + self.social_interaction + self.community

get_level_4_adequacy(self) == self.achievements

\* tiers that look only at the tier just below them, not at the chain
is_need_level_active_Unchained(self, level) ==
    CASE level = 1 -> TRUE
      [] level = 2 -> get_level_1_adequacy_x5(self) >= 5 * NEED_ADEQUATE
      [] level = 3 -> get_level_2_adequacy_x4(self) >= 4 * NEED_ADEQUATE
      [] level = 4 -> get_level_3_adequacy_x3(self) >= 3 * NEED_ADEQUATE
      [] level = 5 -> get_level_4_adequacy(self) >= NEED_ADEQUATE
      [] OTHER -> FALSE

\* is_need_level_active; each average is compared as a sum, so that nothing
\* is lost in the division
is_need_level_active(self, level) ==
    LET l2 == get_level_1_adequacy_x5(self) >= 5 * NEED_ADEQUATE
        l3 == l2 /\ get_level_2_adequacy_x4(self) >= 4 * NEED_ADEQUATE
        l4 == l3 /\ get_level_3_adequacy_x3(self) >= 3 * NEED_ADEQUATE
        l5 == l4 /\ get_level_4_adequacy(self) >= NEED_ADEQUATE
    IN CASE level = 1 -> TRUE
         [] level = 2 -> l2
         [] level = 3 -> l3
         [] level = 4 -> l4
         [] level = 5 -> l5
         [] OTHER -> FALSE

update_food_water(self, hours_passed) ==
    LET depletion == CASE self.status.kind = "Working" -> FOOD_WATER_WORKING
                       [] self.status.kind = "Sleeping" -> FOOD_WATER_RESTING
                       [] OTHER -> FOOD_WATER_BASE
    IN [self EXCEPT !.food_water = clamp(@ + depletion * hours_passed, 0, NEED_MAX)]

update_environment(self, hours_passed, location) ==
    LET depletion == IF location.environmental_quality > 0 THEN ENVIRONMENT_HEALING
                     ELSE IF location.environmental_quality < -1 * Unit
                     THEN ENVIRONMENT_HAZARDOUS
                     ELSE ENVIRONMENT_NEUTRAL
    IN [self EXCEPT !.environment = clamp(@ + depletion * hours_passed, 0, NEED_MAX)]

update_intimacy(self, hours_passed) ==
    [self EXCEPT !.intimacy = clamp(@ + INTIMACY_BASE * hours_passed, 0, NEED_MAX)]

\* stress_modifier = (stress / 10.0) * STRESS_TO_REST_FACTOR
update_rest(self, hours_passed) ==
    LET depletion == CASE self.status.kind = "Sleeping" -> REST_SLEEPING
                       [] self.status.kind = "Working" -> REST_WORKING
                       [] OTHER -> REST_BASE
        stress_modifier == ((self.stress \div 10) * STRESS_TO_REST_FACTOR) \div Unit
    IN [self EXCEPT
          !.rest = clamp(@ + (depletion + stress_modifier) * hours_passed, 0, NEED_MAX)]

update_waste(self, hours_passed) ==
    [self EXCEPT !.waste = clamp(@ + WASTE_BASE * hours_passed, 0, NEED_MAX)]

update_threat(self, hours_passed, location) ==
    LET depletion == IF location.provides_healthcare \/ location.provides_rest
                     THEN THREAT_SAFE_BUILDING
                     ELSE IF location.environmental_quality < -1 * Unit
                     THEN THREAT_DANGEROUS
                     ELSE THREAT_BASE
    IN [self EXCEPT !.threat = clamp(@ + depletion * hours_passed, 0, NEED_MAX)]

\* the safety adjustment for a low income is not clamped here
update_income(self, hours_passed) ==
    LET change == IF self.status.kind = "Working" THEN INCOME_WORKING
                  ELSE INCOME_LIVING_COST
        income == clamp(self.income + change * hours_passed, 0, INCOME_MAX)
    IN [self EXCEPT
          !.income = income,
          !.safety = IF income < INCOME_CRITICAL
                     THEN @ - INCOME_UNEMPLOYED * hours_passed ELSE @]

update_stress(self, hours_passed) ==
    LET change == CASE self.status.kind = "Working" -> STRESS_HIGH_WORKLOAD
                    [] self.status.kind = "Socializing" -> STRESS_RECREATION
                    [] OTHER -> STRESS_BASE
        income_stress == IF self.income < INCOME_CRITICAL THEN STRESS_LOW_INCOME ELSE 0
    IN [self EXCEPT
          !.stress = clamp(@ + (change + income_stress) * hours_passed, 0, NEED_MAX)]

update_safety(self, hours_passed, location) ==
    LET change == IF self.home_id # None /\ location.provides_rest THEN SAFETY_AT_HOME
                  ELSE IF location.provides_healthcare
                          \/ location.environmental_quality > 0
                  THEN SAFETY_SAFE_LOCATION
                  ELSE IF location.environmental_quality < -1 * Unit
                  THEN SAFETY_UNSAFE_AREA
                  ELSE SAFETY_BASE
    IN [self EXCEPT !.safety = clamp(@ + change * hours_passed, 0, NEED_MAX)]

\* the cap is NEED_MAX / 3.0
update_community(self, hours_passed) ==
    LET depletion == IF self.status.kind = "Socializing" THEN COMMUNITY_EVENT
                     ELSE COMMUNITY_BASE
    IN [self EXCEPT
          !.community = clamp(@ + depletion * hours_passed, 0, NEED_MAX \div 3)]

update_progression(self, hours_passed) ==
    LET change == IF self.status.kind = "Working" /\ self.specialized_role # "None"
                  THEN PROGRESSION_MEANINGFUL_WORK ELSE 0
    IN [self EXCEPT !.progression = clamp(@ + change * hours_passed, 0, NEED_MAX)]

\* a step that updates every level, active or not
update_needs_Ungated(self, hours_passed, location) ==
    update_progression(
      update_community(
        update_safety(
          update_stress(
            update_income(
              update_threat(
                update_waste(
                  update_rest(
                    update_intimacy(
                      update_environment(
                        update_food_water(self, hours_passed),
                        hours_passed, location),
                      hours_passed),
                    hours_passed),
                  hours_passed),
                hours_passed, location),
              hours_passed),
            hours_passed),
          hours_passed, location),
        hours_passed),
      hours_passed)

\* update_needs: the level-1 updates, then each higher level if it is active
\* at that point
update_needs(self, hours_passed, location) ==
    LET s1 == update_waste(
                update_rest(
                  update_intimacy(
                    update_environment(
                      update_food_water(self, hours_passed),
                      hours_passed, location),
                    hours_passed),
                  hours_passed),
                hours_passed)
        s2 == IF is_need_level_active(s1, 2)
              THEN update_safety(
                     update_stress(
                       update_income(
                         update_threat(s1, hours_passed, location),
                         hours_passed),
                       hours_passed),
                     hours_passed, location)
              ELSE s1
        s3 == IF is_need_level_active(s2, 3) THEN update_community(s2, hours_passed)
              ELSE s2
    IN IF is_need_level_active(s3, 5) THEN update_progression(s3, hours_passed) ELSE s3

\* a selection that returns the last of the elements with the least key
max_by_Least(seq) ==
    IF Len(seq) = 0 THEN NoRecord
    ELSE LET least == CHOOSE i \in 1..Len(seq) :
                         /\ \A j \in 1..Len(seq) : seq[j].key >= seq[i].key
                         /\ \A j \in (i + 1)..Len(seq) : seq[j].key > seq[i].key
         IN seq[least]

\* Iterator::max_by over a sequence of records with a `key`: the last of the
\* elements with the greatest key; NoRecord for an empty sequence
max_by(seq) ==
    IF Len(seq) = 0 THEN NoRecord
    ELSE LET best == CHOOSE i \in 1..Len(seq) :
                        /\ \A j \in 1..Len(seq) : seq[j].key <= seq[i].key
                        /\ \A j \in (i + 1)..Len(seq) : seq[j].key < seq[i].key
         IN seq[best]

\* the candidates of get_most_pressing_need, in the order they are pushed
PressingNeeds(self) ==
    (IF self.waste > WASTE_CRITICAL
     THEN << [need |-> "Waste", key |-> self.waste * WASTE_HIGH] >> ELSE << >>)
    \o (IF self.food_water < NEED_CRITICAL_LOW
        THEN << [need |-> "Consumption",
                 key |-> (NEED_MAX - self.food_water) * FOOD_CRITICAL] >> ELSE << >>)
    \o (IF self.rest < NEED_CRITICAL_LOW
        THEN << [need |-> "Rest", key |-> (NEED_MAX - self.rest) * REST_CRITICAL] >>
        ELSE << >>)
    \o (IF self.environment < NEED_CRITICAL_LOW
        THEN << [need |-> "Environment",
                 key |-> (NEED_MAX - self.environment) * ENVIRONMENT_LOW] >> ELSE << >>)
    \o (IF is_need_level_active(self, 2) /\ self.safety < NEED_CRITICAL_LOW
        THEN << [need |-> "Environment",
                 key |-> (NEED_MAX - self.safety) * SAFETY_LOW] >> ELSE << >>)
    \o (IF is_need_level_active(self, 3) /\ self.community < COMMUNITY_LOW
        THEN << [need |-> "Connection",
                 key |-> (COMMUNITY_TARGET - self.community) * SOCIAL_NEEDS] >>
        ELSE << >>)

\* get_most_pressing_need: NoRecord stands for None
get_most_pressing_need(self) ==
    max_by(SelectSeq(PressingNeeds(self), LAMBDA n : n.key > NEED_URGENT))

(***************************************************************************)
(* tables/building.rs, reducers/building.rs: buildings and their location  *)
(* capabilities.  Coordinates are whole units; environmental_quality is in *)
(* thousandths.  The columns the engine never reads are left out.          *)
(***************************************************************************)
DEFAULT_CAPACITY == 20
QUALITY_HOME == 500
QUALITY_WORKPLACE == -500
QUALITY_PARK == 1500
QUALITY_HOSPITAL == 2000

\* a LocationCapability with nothing provided
NoCapability(id, building_id) ==
    [ id |-> id, building_id |-> building_id,
      provides_food |-> FALSE, provides_rest |-> FALSE, provides_social |-> FALSE,
      provides_facilities |-> FALSE, provides_healthcare |-> FALSE,
      provides_culture |-> FALSE, provides_work |-> FALSE,
      environmental_quality |-> 0 ]

\* create_location_capabilities: the row for a building of type building_type
create_location_capabilities(locations, building_id, building_type) ==
    LET blank == NoCapability(Len(locations) + 1, building_id)
        row == CASE building_type = "Home" ->
                      [blank EXCEPT !.provides_food = TRUE, !.provides_rest = TRUE,
                                    !.provides_facilities = TRUE,
                                    !.environmental_quality = QUALITY_HOME]
                 [] building_type = "Workplace" ->
                      [blank EXCEPT !.provides_social = TRUE,
                                    !.provides_facilities = TRUE,
                                    !.provides_work = TRUE,
                                    !.environmental_quality = QUALITY_WORKPLACE]
                 [] building_type = "Restaurant" ->
                      [blank EXCEPT !.provides_food = TRUE, !.provides_social = TRUE,
                                    !.provides_facilities = TRUE]
                 [] building_type = "Park" ->
                      [blank EXCEPT !.provides_rest = TRUE, !.provides_social = TRUE,
                                    !.provides_culture = TRUE,
                                    !.environmental_quality = QUALITY_PARK]
                 [] building_type = "Hospital" ->
                      [blank EXCEPT !.provides_rest = TRUE,
                                    !.provides_facilities = TRUE,
                                    !.provides_healthcare = TRUE,
                                    !.environmental_quality = QUALITY_HOSPITAL]
                 [] OTHER -> [blank EXCEPT !.provides_facilities = TRUE]
    IN Append(locations, row)

\* create_building(ctx, name, city_id, building_type, x, y); `capacity` is the
\* capacity of a Home or the positions of a Workplace.  Returns both tables.
create_building(buildings, locations, building_type, capacity, x, y) ==
    LET id == Len(buildings) + 1
        max_capacity == IF building_type \in {"Home", "Workplace"} THEN capacity
                        ELSE DEFAULT_CAPACITY
        row == [ id |-> id, building_type |-> building_type,
                 location_x |-> x, location_y |-> y,
                 prestige_level |-> 1, current_occupants |-> 0,
                 max_capacity |-> max_capacity ]
    IN [ building |-> Append(buildings, row),
         location_capability |-> create_location_capabilities(locations, id,
                                                              building_type) ]

(***************************************************************************)
(* systems/priorities.rs                                                   *)
(***************************************************************************)
\* floor of the square root
ISqrt(n) == CHOOSE r \in 0..n : r * r <= n /\ n < (r + 1) * (r + 1)

\* calculate_distance, in thousandths; exact where the root is whole, as it is
\* for the buildings of this model, which stand on one street
calculate_distance(x1, y1, x2, y2) ==
    ISqrt((x2 - x1) * (x2 - x1) + (y2 - y1) * (y2 - y1)) * Unit

\* calculate_travel_time: ((distance / 10.0).ceil() as u64).max(1)
calculate_travel_time(distance) == Max((distance + 10 * Unit - 1) \div (10 * Unit), 1)

PRESTIGE_SCORE == 200
HOME_BONUS == 2000
WORK_BONUS == 1000

\* can_fulfill of find_best_location_for_need
can_fulfill(person, need, place, location) ==
    CASE need = "Environment" ->
             \/ location.environmental_quality > 0
             \/ location.provides_healthcare
             \/ (person.home_id = place.id /\ location.provides_rest)
      [] need = "Consumption" -> location.provides_food
      [] need = "Connection" -> location.provides_social \/ location.provides_culture
      [] need = "Rest" -> location.provides_rest /\ person.home_id = place.id
      [] need = "Waste" -> location.provides_facilities

\* total_score of one (building, location) pair; distance * 0.1 is distance / 10
total_score(person, place, location, current_x, current_y) ==
    LET distance == calculate_distance(current_x, current_y,
                                       place.location_x, place.location_y)
        quality_score == location.environmental_quality
                         + place.prestige_level * PRESTIGE_SCORE
        distance_penalty == distance \div 10
        home_bonus == IF person.home_id = place.id THEN HOME_BONUS ELSE 0
        work_bonus == IF person.workplace_id = place.id THEN WORK_BONUS ELSE 0
    IN quality_score + home_bonus + work_bonus - distance_penalty

\* candidates taken without a look at the occupancy of the building
Candidates_IgnoringCapacity(person, need, buildings, locations, current_x, current_y) ==
    LET n == Min(Len(buildings), Len(locations))
        kept == SelectSeq([i \in 1..n |-> i],
                          LAMBDA i : can_fulfill(person, need, buildings[i],
                                                 locations[i]))
    IN [k \in 1..Len(kept) |->
          [ id |-> buildings[kept[k]].id,
            key |-> total_score(person, buildings[kept[k]], locations[kept[k]],
                                current_x, current_y),
            travel_time |-> calculate_travel_time(
                                calculate_distance(current_x, current_y,
                                                   buildings[kept[k]].location_x,
                                                   buildings[kept[k]].location_y)) ]]

\* the candidates of find_best_location_for_need, in the order they are
\* pushed: buildings and locations are paired by position (zip)
Candidates(person, need, buildings, locations, current_x, current_y) ==
    LET n == Min(Len(buildings), Len(locations))
        kept == SelectSeq([i \in 1..n |-> i],
                          LAMBDA i : /\ ~(buildings[i].current_occupants
                                          >= buildings[i].max_capacity)
                                     /\ can_fulfill(person, need, buildings[i],
                                                    locations[i]))
    IN [k \in 1..Len(kept) |->
          [ id |-> buildings[kept[k]].id,
            key |-> total_score(person, buildings[kept[k]], locations[kept[k]],
                                current_x, current_y),
            travel_time |-> calculate_travel_time(
                                calculate_distance(current_x, current_y,
                                                   buildings[kept[k]].location_x,
                                                   buildings[kept[k]].location_y)) ]]

\* find_best_location_for_need: NoRecord stands for None
find_best_location_for_need(person, need, buildings, locations, current_x, current_y) ==
    max_by(Candidates(person, need, buildings, locations, current_x, current_y))

\* an action choice that sends an agent to sleep wherever the environment is good
determine_action_for_need_SleepAnywhere(person, need, building_id) ==
    CASE need = "Environment" -> "Sleep"
      [] need = "Consumption" -> "Eat"
      [] need = "Connection" -> "Socialize"
      [] need = "Rest" -> "Sleep"
      [] need = "Waste" -> "UseFacilities"

\* a need engine that sends a tired agent to work
determine_action_for_need_WorkWhenTired(person, need, building_id) ==
    CASE need = "Environment" ->
             IF person.home_id = building_id THEN "Sleep" ELSE "None"
      [] need = "Consumption" -> "Eat"
      [] need = "Connection" -> "Socialize"
      [] need = "Rest" -> "Work"
      [] need = "Waste" -> "UseFacilities"

\* determine_action_for_need: "None" stands for None
determine_action_for_need(person, need, building_id) ==
    CASE need = "Environment" ->
             IF person.home_id = building_id THEN "Sleep" ELSE "None"
      [] need = "Consumption" -> "Eat"
      [] need = "Connection" -> "Socialize"
      [] need = "Rest" -> "Sleep"
      [] need = "Waste" -> "UseFacilities"

(***************************************************************************)
(* reducers/time.rs: the simulation clock and the autoticker.              *)
(***************************************************************************)
DefaultTickIntervalMs == 3600000   \* tick_interval_ms of init_simulation
MinTickIntervalMs == 1000          \* the least interval set_tick_interval takes

\* the row init_simulation inserts
NewSimulationTime ==
    [ id |-> 1, current_hour |-> 0, day_of_week |-> 0, hour_of_day |-> 0,
      total_days |-> 0, is_running |-> FALSE, auto_tick_enabled |-> FALSE,
      tick_interval_ms |-> DefaultTickIntervalMs ]

\* toggle_simulation on an initialised simulation
toggle_simulation(time) == [time EXCEPT !.is_running = ~@]

\* the time arithmetic shared by tick_hour and advance_time_by_one_hour
AdvanceOneHour(time) ==
    LET current_hour == time.current_hour + 1
    IN [time EXCEPT !.current_hour = current_hour,
                    !.hour_of_day = current_hour % 24,
                    !.day_of_week = (current_hour \div 24) % 7,
                    !.total_days = current_hour \div 24]

\* tick_hour: Err without a clock, Ok and nothing done while paused
tick_hour(time) ==
    IF time = NoRecord THEN [ok |-> FALSE, time |-> time]
    ELSE IF ~time.is_running THEN [ok |-> TRUE, time |-> time]
    ELSE [ok |-> TRUE, time |-> AdvanceOneHour(time)]

\* skip_hours(ctx, hours): advance_time_by_one_hour `hours` times; an Err of
\* any of them undoes the whole call
RECURSIVE skip_hours(_, _)
skip_hours(time, hours) ==
    IF hours = 0 THEN [ok |-> TRUE, time |-> time]
    ELSE IF time = NoRecord \/ ~time.is_running THEN [ok |-> FALSE, time |-> time]
    ELSE CHOOSE r \in { skip_hours(next, hours - 1) : next \in {AdvanceOneHour(time)} } : TRUE

\* a tick that waits until the time of the next tick has passed
should_tick_Late(config, current_time) ==
    IF config # NoRecord THEN current_time > config.next_tick_time ELSE TRUE

\* should_tick of check_autotick: the next tick is due, or there is no
\* autoticker_config row
should_tick(config, current_time) ==
    IF config # NoRecord THEN current_time >= config.next_tick_time ELSE TRUE

\* check_autotick at wall-clock time current_time (ms).  Returns ok, the
\* simulation_time row and the autoticker_config row after the call
check_autotick(time, config, current_time) ==
    IF time = NoRecord THEN [ok |-> FALSE, time |-> time, config |-> config]
    ELSE IF ~time.auto_tick_enabled \/ ~time.is_running
    THEN [ok |-> TRUE, time |-> time, config |-> config]
    ELSE IF ~should_tick(config, current_time)
    THEN [ok |-> TRUE, time |-> time, config |-> config]
    ELSE [ok |-> tick_hour(time).ok,
          time |-> tick_hour(time).time,
          config |-> [id |-> 1, last_tick_time |-> current_time,
                      next_tick_time |-> current_time + time.tick_interval_ms]]

\* start_autoticker at wall-clock time current_time: the row it finds is
\* deleted and a row due at once is inserted
start_autoticker(time, config, current_time) ==
    IF time = NoRecord THEN [ok |-> FALSE, time |-> time, config |-> config]
    ELSE IF time.auto_tick_enabled
    THEN [ok |-> FALSE, time |-> time, config |-> config]
    ELSE [ok |-> TRUE,
          time |-> [time EXCEPT !.auto_tick_enabled = TRUE],
          config |-> [id |-> 1, last_tick_time |-> 0,
                      next_tick_time |-> current_time]]

\* an autoticker that is stopped with its row left in the table
stop_autoticker_KeepingConfig(time, config) ==
    IF time = NoRecord THEN [ok |-> FALSE, time |-> time, config |-> config]
    ELSE IF ~time.auto_tick_enabled
    THEN [ok |-> FALSE, time |-> time, config |-> config]
    ELSE [ok |-> TRUE,
          time |-> [time EXCEPT !.auto_tick_enabled = FALSE],
          config |-> config]

\* stop_autoticker
stop_autoticker(time, config) ==
    IF time = NoRecord THEN [ok |-> FALSE, time |-> time, config |-> config]
    ELSE IF ~time.auto_tick_enabled
    THEN [ok |-> FALSE, time |-> time, config |-> config]
    ELSE [ok |-> TRUE,
          time |-> [time EXCEPT !.auto_tick_enabled = FALSE],
          config |-> NoRecord]

\* set_tick_interval(ctx, interval_ms) at wall-clock time current_time: a
\* running autoticker is stopped, the interval stored, the autoticker started
\* again
set_tick_interval(time, config, interval_ms, current_time) ==
    IF interval_ms = 0 \/ interval_ms < MinTickIntervalMs \/ time = NoRecord
    THEN [ok |-> FALSE, time |-> time, config |-> config]
    ELSE IF ~time.auto_tick_enabled
    THEN [ok |-> TRUE, time |-> [time EXCEPT !.tick_interval_ms = interval_ms],
          config |-> config]
    ELSE CHOOSE r \in
             { start_autoticker([stopped.time EXCEPT
                                    !.tick_interval_ms = interval_ms],
                                stopped.config, current_time) :
                   stopped \in { stop_autoticker(time, config) } } : TRUE

(***************************************************************************)
(* reducers/individual.rs                                                  *)
(***************************************************************************)
\* log_movement: the row appended to movement_event
log_movement(events, individual_id, from, to, hour) ==
    Append(events, [ id |-> Len(events) + 1, individual_id |-> individual_id,
                     from_location_id |-> from, to_location_id |-> to,
                     hour |-> hour, travel_time |-> 1 ])

\* log_need_fulfillment: the row appended to need_fulfillment_event
log_need_fulfillment(events, individual_id, location_id, hour, need) ==
    Append(events, [ id |-> Len(events) + 1, individual_id |-> individual_id,
                     location_id |-> location_id, hour |-> hour,
                     need_type |-> need ])

need_from_action(action) ==
    CASE action = "Eat" -> "Consumption"
      [] action \in {"Sleep", "Work"} -> "Rest"
      [] action = "Socialize" -> "Connection"
      [] action = "UseFacilities" -> "Waste"
      [] OTHER -> "Environment"

\* get_location_for_building: the first capability row of the building,
\* NoRecord when there is none (the Err of the reducer)
get_location_for_building(locations, building_id) ==
    IF \E i \in 1..Len(locations) : locations[i].building_id = building_id
    THEN locations[CHOOSE i \in 1..Len(locations) :
                      /\ locations[i].building_id = building_id
                      /\ \A j \in 1..(i - 1) : locations[j].building_id # building_id]
    ELSE NoRecord

\* perform_action putting the agent to sleep whatever the action
ApplyAction_AlwaysSleep(person, action, current_hour) ==
    [person EXCEPT
       !.status = Status("Sleeping", current_hour + SLEEP_DURATION, None,
                         person.home_id)]

\* the match of perform_action: what the action does to the individual (the
\* work_event table is only written and is left out)
ApplyAction(person, action, current_hour) ==
    CASE action = "Work" ->
             [person EXCEPT
                !.status = Status("Working", current_hour + WORK_DURATION, None,
                                  person.workplace_id),
                !.rest = @ + WORK_REST_COST,
                !.stress = @ + WORK_STRESS_GAIN,
                !.income = @ + WORK_INCOME_GAIN]
      [] action = "Sleep" ->
             [person EXCEPT
                !.status = Status("Sleeping", current_hour + SLEEP_DURATION, None,
                                  person.home_id),
                !.rest = @ + SLEEP_REST_GAIN]
      [] action = "Eat" ->
             [person EXCEPT
                !.status = Status("Eating", current_hour + EAT_DURATION, None, None),
                !.food_water = @ + EAT_FOOD_GAIN,
                !.income = @ - EAT_MEAL_COST]
      [] action = "Socialize" ->
             [person EXCEPT
                !.status = Status("Socializing", current_hour + SOCIALIZE_DURATION,
                                  None, None),
                !.social_interaction = Min(@ + SOCIALIZE_SOCIAL_GAIN,
                                           SOCIALIZE_SOCIAL_CAP),
                !.stress = @ + SOCIALIZE_STRESS_LOSS]
      [] action = "UseFacilities" ->
             [person EXCEPT
                !.status = Status("UsingFacilities",
                                  current_hour + USE_FACILITIES_DURATION, None,
                                  person.current_location_id),
                !.waste = @ + WASTE_FACILITIES]
      [] action = "MaintainBuilding" ->
             [person EXCEPT
                !.status = Status("Maintaining", current_hour + MAINTAIN_DURATION,
                                  None, person.current_location_id)]
      [] action = "CleanBuilding" ->
             [person EXCEPT
                !.status = Status("Maintaining", current_hour + CLEAN_DURATION,
                                  None, person.current_location_id)]
      [] OTHER -> person

\* perform_action: the action, then the need-fulfilment log
perform_action(person, fulfilments, action, current_hour) ==
    [ individual |-> ApplyAction(person, action, current_hour),
      need_fulfillment_event |->
          log_need_fulfillment(fulfilments, person.id,
                               person.current_location_id, current_hour,
                               need_from_action(action)) ]

\* the move branch of handle_pressing_need: in transit to target_building,
\* the rest cost of the way applied at once
StartTransit(person, current_building, target_building, current_hour) ==
    LET distance == calculate_distance(current_building.location_x,
                                       current_building.location_y,
                                       target_building.location_x,
                                       target_building.location_y)
        travel_time == calculate_travel_time(distance)
    IN [person EXCEPT
          !.status = Status("InTransit", current_hour + travel_time,
                            target_building.id, None),
          !.rest = @ + MOVE_REST_COST * travel_time]

\* handle_pressing_need.  Returns ok (FALSE: "Current building not found"),
\* the individual, the fulfilment log, and the building and action chosen.
handle_pressing_need(person, need, current_hour, buildings, locations, fulfilments) ==
    LET here == RowIndex(buildings, person.current_location_id)
        unchanged == [ok |-> TRUE, individual |-> person,
                      need_fulfillment_event |-> fulfilments,
                      target |-> None, action |-> "None"]
    IN IF here = 0 THEN [unchanged EXCEPT !.ok = FALSE]
       ELSE
         LET current_building == buildings[here]
             best == find_best_location_for_need(person, need, buildings, locations,
                                                 current_building.location_x,
                                                 current_building.location_y)
         IN IF best = NoRecord THEN unchanged
            ELSE IF best.id = person.current_location_id
            THEN LET action == determine_action_for_need(person, need, best.id)
                     done == perform_action(person, fulfilments, action, current_hour)
                 IN IF action = "None" THEN [unchanged EXCEPT !.target = best.id]
                    ELSE [ok |-> TRUE, individual |-> done.individual,
                          need_fulfillment_event |-> done.need_fulfillment_event,
                          target |-> best.id, action |-> action]
            ELSE [unchanged EXCEPT
                    !.individual = StartTransit(person, current_building,
                                                buildings[RowIndex(buildings, best.id)],
                                                current_hour),
                    !.target = best.id,
                    !.action = "Move"]

\* a status match that forgets the move: a transit whose hour has come gives
\* way to Idle where the individual stands
CheckStatusExpired_WithoutMove(person, current_hour) ==
    IF person.status.kind # "Idle" /\ person.status.until_hour <= current_hour
    THEN [individual |-> [person EXCEPT !.status = Idle],
          arrived |-> person.status.kind = "InTransit"]
    ELSE [individual |-> person, arrived |-> FALSE]

\* a status match that is one hour late: a status gives way to Idle only
\* after its until_hour has passed
CheckStatusExpired_Late(person, current_hour) ==
    IF person.status.kind # "Idle" /\ person.status.until_hour < current_hour
    THEN [individual |-> [person EXCEPT
                            !.current_location_id =
                                IF person.status.kind = "InTransit"
                                THEN person.status.target_location ELSE @,
                            !.status = Idle],
          arrived |-> person.status.kind = "InTransit"]
    ELSE [individual |-> person, arrived |-> FALSE]

\* an expiry test that ends every activity at the next tick
CheckStatusExpired_Early(person, current_hour) ==
    IF person.status.kind \in {"Working", "Sleeping", "Eating", "Socializing",
                                   "Maintaining", "UsingFacilities"}
    THEN [individual |-> [person EXCEPT !.status = Idle], arrived |-> FALSE]
    ELSE IF person.status.kind = "InTransit"
            /\ person.status.until_hour <= current_hour
            /\ person.status.target_location # None
    THEN [individual |-> [person EXCEPT
                            !.current_location_id = person.status.target_location,
                            !.status = Idle],
          arrived |-> TRUE]
    ELSE [individual |-> person, arrived |-> FALSE]

\* the status match of update_individual_needs: a status whose until_hour
\* has come gives way to Idle; a transit with a target moves the individual
CheckStatusExpired(person, current_hour) ==
    IF person.status.kind \in {"Working", "Sleeping", "Eating", "Socializing",
                                   "Maintaining", "UsingFacilities"}
    THEN IF person.status.until_hour <= current_hour
         THEN [individual |-> [person EXCEPT !.status = Idle], arrived |-> FALSE]
         ELSE [individual |-> person, arrived |-> FALSE]
    ELSE IF person.status.kind = "InTransit"
            /\ person.status.until_hour <= current_hour
            /\ person.status.target_location # None
    THEN [individual |-> [person EXCEPT
                            !.current_location_id = person.status.target_location,
                            !.status = Idle],
          arrived |-> TRUE]
    ELSE [individual |-> person, arrived |-> FALSE]

\* what a call of update_individual_needs did, for the record of the call:
\*   ticked        the call got past the hours_passed test
\*   hours_passed  current_hour - last_update_hour
\*   before        the individual's row before the call
\*   decayed       the row after update_needs
\*   after_expiry  the status after the status match
\*   arrived       the status match applied an arrival
\*   need          the pressing need handled ("None": none)
\*   target        the building chosen for it (None: none)
\*   action        the action performed, "Move" or "None"
TickTrace(before, hours_passed, decayed, after_expiry, arrived, need, target, action) ==
    [ ticked |-> TRUE, hours_passed |-> hours_passed, before |-> before,
      decayed |-> decayed, after_expiry |-> after_expiry, arrived |-> arrived,
      need |-> need, target |-> target, action |-> action ]

NotTicked == [ticked |-> FALSE]

(***************************************************************************)
(* The agent engine at work: a town, one resident created at hour 0 and     *)
(* not ticked since, the clock running.                                    *)
(***************************************************************************)
MaxCalls == 7           \* reducer calls made to the agent engine in one run

\* the create_building calls that made the town: type, capacity, x, y
TownPlan ==
    << <<"Workplace", 10, 0, 0>>,
       <<"Home", 4, 5, 0>>,
       <<"Restaurant", 0, 20, 0>>,
       <<"Park", 0, 30, 0>> >>

\* the building and location_capability tables after the first n calls
RECURSIVE Town(_)
Town(n) ==
    IF n = 0 THEN [building |-> << >>, location_capability |-> << >>]
    ELSE LET t == Town(n - 1)
             b == TownPlan[n]
         IN create_building(t.building, t.location_capability, b[1], b[2], b[3], b[4])

\* home_id and workplace_id given to create_individual
Residents == { <<home_id, workplace_id>> : home_id \in {None, 2}, workplace_id \in {None, 1} }

\* the hour the clock has been skipped to when the run starts: food_water of
\* an unticked individual is below NEED_CRITICAL_LOW from hour 26 on, its rest
\* is used up from hour 45 on
StartHours == {26, 45}

\* hours given to skip_hours
HourSteps == {8}

\* no scheduler: its tables are empty
NoScheduler ==
    /\ now = StartNow
    /\ scheduler_config = NoRecord
    /\ game_world = << >>

AgentInit ==
    /\ NoScheduler
    /\ \E h \in StartHours :
           simulation_time = skip_hours(toggle_simulation(NewSimulationTime), h).time
    /\ building = Town(Len(TownPlan)).building
    /\ location_capability = Town(Len(TownPlan)).location_capability
    /\ \E r \in Residents : individual = << NewIndividual(1, r[1], r[2], 0) >>
    /\ movement_event = << >>
    /\ need_fulfillment_event = << >>
    /\ autoticker_config = NoRecord
    /\ calls_made = 0
    /\ last_call = NoCall

\* reducer tick_hour
TickHour ==
    LET r == tick_hour(simulation_time)
    IN /\ calls_made < MaxCalls
       /\ simulation_time' = r.time
       /\ calls_made' = calls_made + 1
       /\ last_call' = Returned("tick_hour", << >>, IF r.ok THEN "Ok" ELSE "Err")
       /\ UNCHANGED <<individual, building, location_capability, movement_event,
                      need_fulfillment_event>>
       /\ UNCHANGED schedVars
       /\ UNCHANGED autoticker_config

\* reducer skip_hours
SkipHours ==
    \E hours \in HourSteps :
        LET r == skip_hours(simulation_time, hours)
        IN /\ calls_made < MaxCalls
           /\ simulation_time' = IF r.ok THEN r.time ELSE simulation_time
           /\ calls_made' = calls_made + 1
           /\ last_call' = Returned("skip_hours", <<hours>>, IF r.ok THEN "Ok" ELSE "Err")
           /\ UNCHANGED <<individual, building, location_capability, movement_event,
                          need_fulfillment_event>>
           /\ UNCHANGED schedVars
           /\ UNCHANGED autoticker_config

\* the individual_id given to update_individual_needs: the ids of the table
IndividualIds == { individual[i].id : i \in 1..Len(individual) }

\* update_individual_needs returns without a change of the tables
TickReturns(individual_id, result) ==
    /\ last_call' = [op |-> "update_individual_needs", args |-> <<individual_id>>,
                     result |-> result, out |-> NotTicked]
    /\ UNCHANGED <<individual, movement_event, need_fulfillment_event>>

\* a tick that does not record the hour it was made at
TickDecayed_Unstamped(idx, before, current_hour, decayed) ==
    \E expired \in { CheckStatusExpired(decayed, current_hour) } :
    \E pressing \in { IF expired.individual.status.kind = "Idle"
                      THEN get_most_pressing_need(expired.individual)
                      ELSE NoRecord } :
    \E handled \in { IF pressing = NoRecord
                     THEN [ok |-> TRUE, individual |-> expired.individual,
                           need_fulfillment_event |-> need_fulfillment_event,
                           target |-> None, action |-> "None"]
                     ELSE handle_pressing_need(expired.individual, pressing.need,
                                               current_hour, building,
                                               location_capability,
                                               need_fulfillment_event) } :
        IF ~handled.ok THEN TickReturns(before.id, "Err")
        ELSE /\ individual' =
                    [individual EXCEPT
                        ![idx] = [handled.individual EXCEPT
                                      !.last_update_hour = before.last_update_hour]]
             /\ movement_event' =
                    IF expired.arrived
                    THEN log_movement(movement_event, before.id,
                                      expired.individual.current_location_id,
                                      decayed.status.target_location, current_hour)
                    ELSE movement_event
             /\ need_fulfillment_event' = handled.need_fulfillment_event
             /\ last_call' =
                    [op |-> "update_individual_needs", args |-> <<before.id>>,
                     result |-> "Ok",
                     out |-> TickTrace(before, current_hour - before.last_update_hour,
                                       decayed, expired.individual.status,
                                       expired.arrived,
                                       IF pressing = NoRecord THEN "None"
                                       ELSE pressing.need,
                                       handled.target, handled.action)]

\* update_individual_needs from its status match on, `decayed` being the row
\* after update_needs
TickDecayed(idx, before, current_hour, decayed) ==
    \E expired \in { CheckStatusExpired(decayed, current_hour) } :
    \E pressing \in { IF expired.individual.status.kind = "Idle"
                      THEN get_most_pressing_need(expired.individual)
                      ELSE NoRecord } :
    \E handled \in { IF pressing = NoRecord
                     THEN [ok |-> TRUE, individual |-> expired.individual,
                           need_fulfillment_event |-> need_fulfillment_event,
                           target |-> None, action |-> "None"]
                     ELSE handle_pressing_need(expired.individual, pressing.need,
                                               current_hour, building,
                                               location_capability,
                                               need_fulfillment_event) } :
        IF ~handled.ok THEN TickReturns(before.id, "Err")
        ELSE /\ individual' =
                    [individual EXCEPT
                        ![idx] = [handled.individual EXCEPT
                                      !.last_update_hour = current_hour]]
             /\ movement_event' =
                    IF expired.arrived
                    THEN log_movement(movement_event, before.id,
                                      expired.individual.current_location_id,
                                      decayed.status.target_location, current_hour)
                    ELSE movement_event
             /\ need_fulfillment_event' = handled.need_fulfillment_event
             /\ last_call' =
                    [op |-> "update_individual_needs", args |-> <<before.id>>,
                     result |-> "Ok",
                     out |-> TickTrace(before, current_hour - before.last_update_hour,
                                       decayed, expired.individual.status,
                                       expired.arrived,
                                       IF pressing = NoRecord THEN "None"
                                       ELSE pressing.need,
                                       handled.target, handled.action)]

\* reducer update_individual_needs, called with individual_id
UpdateIndividualNeedsOf(individual_id) ==
        /\ calls_made < MaxCalls
        /\ calls_made' = calls_made + 1
        /\ UNCHANGED <<simulation_time, building, location_capability>>
        /\ UNCHANGED schedVars
        /\ UNCHANGED autoticker_config
        /\ \E idx \in { RowIndex(individual, individual_id) } :
               IF simulation_time = NoRecord \/ idx = 0
               THEN TickReturns(individual_id, "Err")
               ELSE \E before \in { individual[idx] } :
                    \E current_hour \in { simulation_time.current_hour } :
                    \E location \in { get_location_for_building(
                                          location_capability,
                                          before.current_location_id) } :
                        IF current_hour - before.last_update_hour = 0
                        THEN TickReturns(individual_id, "Ok")
                        ELSE IF location = NoRecord
                        THEN TickReturns(individual_id, "Err")
                        ELSE \E decayed \in { update_needs(
                                                  before,
                                                  current_hour - before.last_update_hour,
                                                  location) } :
                                 TickDecayed(idx, before, current_hour, decayed)

\* reducer update_individual_needs
UpdateIndividualNeeds ==
    \E individual_id \in IndividualIds : UpdateIndividualNeedsOf(individual_id)

AgentNext == TickHour \/ SkipHours \/ UpdateIndividualNeeds

AgentSpec == AgentInit /\ [][AgentNext]_vars

(***************************************************************************)
(* The functions of systems/needs.rs on their own: an individual is drawn  *)
(* from a set of rows whose scalars are within their bounds, and one of    *)
(* the functions is applied to it.                                         *)
(***************************************************************************)
\* the kinds of IndividualStatus
StatusKinds ==
    {"Idle", "Working", "Sleeping", "Eating", "Socializing", "InTransit",
     "Maintaining", "UsingFacilities"}

\* a row with the given scalars, the others as create_individual sets them
SampleIndividual(home_id, kind, food, rest, waste, env, safety, community, income, tension, belonging) ==
    [NewIndividual(1, home_id, None, 0) EXCEPT
        !.status = IF kind = "Idle" THEN Idle ELSE Status(kind, 1, None, None),
        !.food_water = food, !.rest = rest, !.waste = waste, !.environment = env,
        !.safety = safety, !.community = community, !.income = income,
        !.threat = tension, !.stress = tension,
        !.relationship = belonging, !.social_interaction = belonging,
        !.achievements = belonging]

\* the sampled rows.  The scalars take their bounds, the thresholds of
\* get_most_pressing_need and values either side of them, in thousandths;
\* threat and stress go together (tension), and so do relationship,
\* social_interaction and achievements (belonging)
SampleIndividuals ==
    { [SampleIndividual(home_id, kind, food, rest, waste, env, safety, community,
                        income, tension, belonging)
          EXCEPT !.specialized_role = role] :
        home_id \in {None, 1},
        kind \in StatusKinds,
        role \in {"None", "Artist"},
        food \in {0, 16 * Unit, 80 * Unit, NEED_MAX},
        rest \in {4 * Unit, 19 * Unit, NEED_MAX},
        waste \in {0, NEED_MAX},
        env \in {10 * Unit, NEED_MAX},
        safety \in {5 * Unit, NEED_MAX},
        community \in {0, 5 * Unit, NEED_MAX \div 3},
        income \in {0, INCOME_MAX},
        tension \in {0, NEED_MAX},
        belonging \in {0, NEED_MAX} }

\* the capability rows create_location_capabilities makes for building 1
SampleLocations ==
    { create_location_capabilities(<< >>, 1, building_type)[1] :
        building_type \in {"Home", "Workplace", "Hospital"} }

NeedsInit ==
    /\ NoScheduler
    /\ simulation_time = NoRecord
    /\ individual \in { <<self>> : self \in SampleIndividuals }
    /\ building = << >>
    /\ location_capability = << >>
    /\ movement_event = << >>
    /\ need_fulfillment_event = << >>
    /\ autoticker_config = NoRecord
    /\ calls_made = 0
    /\ last_call = NoCall

\* the tables other than individual stay as they are
NeedsFrame ==
    /\ calls_made = 0
    /\ calls_made' = 1
    /\ UNCHANGED <<simulation_time, building, location_capability, movement_event,
                   need_fulfillment_event>>
    /\ UNCHANGED schedVars
    /\ UNCHANGED autoticker_config

\* Individual::update_needs on the sampled row, an hour or a day having passed
CallUpdateNeeds ==
    \E hours_passed \in {1, 24}, location \in SampleLocations :
        /\ NeedsFrame
        /\ individual' = << update_needs(individual[1], hours_passed, location) >>
        /\ last_call' = [op |-> "update_needs", args |-> <<hours_passed, location>>,
                         result |-> "Ok", out |-> [before |-> individual[1]]]

\* Individual::is_need_level_active on the sampled row, for each of the five
\* levels and the numbers on either side of them
CallIsNeedLevelActive ==
    /\ NeedsFrame
    /\ UNCHANGED individual
    /\ last_call' = [op |-> "is_need_level_active", args |-> << >>, result |-> "Ok",
                     out |-> [level \in 0..6 |->
                                  is_need_level_active(individual[1], level)]]

\* Individual::get_most_pressing_need on the sampled row
CallGetMostPressingNeed ==
    /\ NeedsFrame
    /\ UNCHANGED individual
    /\ last_call' = [op |-> "get_most_pressing_need", args |-> << >>,
                     result |-> "Ok",
                     out |-> [pressing |-> get_most_pressing_need(individual[1])]]

NeedsNext == CallUpdateNeeds \/ CallIsNeedLevelActive \/ CallGetMostPressingNeed

NeedsSpec == NeedsInit /\ [][NeedsNext]_vars

(***************************************************************************)
(* find_best_location_for_need on its own.  Its arguments are the slices   *)
(* handle_pressing_need collects from the building and location_capability *)
(* tables, each in the order the table's scan yields its rows, which is    *)
(* not the same order for two tables by any rule of the database.  The     *)
(* rows are those create_building makes; current_occupants, which the      *)
(* matcher reads, is given values up to max_capacity.                      *)
(***************************************************************************)
MaxBuildings == 2       \* buildings in the slices given to the matcher

\* the kinds of FundamentalNeed
FundamentalNeeds == {"Environment", "Consumption", "Connection", "Rest", "Waste"}

\* create_building calls: type, capacity, x, y; the buildings stand 10 or 20
\* units from the origin
SiteChoices == {"Home", "Workplace", "Restaurant"} \X {10} \X {10, 20} \X {0}

\* the tables after the first n of the calls `sites`
RECURSIVE BuiltTown(_, _)
BuiltTown(sites, n) ==
    IF n = 0 THEN [building |-> << >>, location_capability |-> << >>]
    ELSE CHOOSE result \in
             { create_building(t.building, t.location_capability, sites[n][1],
                               sites[n][2], sites[n][3], sites[n][4]) :
                   t \in { BuiltTown(sites, n - 1) } } :
             TRUE

\* the orders in which a scan may yield n rows
ScanOrders(n) ==
    { order \in [1..n -> 1..n] : \A i, j \in 1..n : order[i] = order[j] => i = j }

\* the building rows have current_occupants 3, or max_capacity where full[i]; the
\* capability rows come in the order `order`
MatchInit ==
    /\ NoScheduler
    /\ simulation_time = NoRecord
    /\ \E sites \in [1..MaxBuildings -> SiteChoices],
          full \in [1..MaxBuildings -> BOOLEAN],
          order \in ScanOrders(MaxBuildings) :
           \E town \in { BuiltTown(sites, MaxBuildings) } :
               /\ building =
                      [i \in 1..MaxBuildings |->
                          [town.building[i] EXCEPT !.current_occupants =
                              IF full[i] THEN town.building[i].max_capacity ELSE 3]]
               /\ location_capability =
                      [i \in 1..MaxBuildings |-> town.location_capability[order[i]]]
    /\ \E home_id \in {None, 1}, food_water \in {10 * Unit, 70 * Unit} :
           individual = << [NewIndividual(1, home_id, None, 0)
                               EXCEPT !.food_water = food_water] >>
    /\ movement_event = << >>
    /\ need_fulfillment_event = << >>
    /\ autoticker_config = NoRecord
    /\ calls_made = 0
    /\ last_call = NoCall

\* find_best_location_for_need for the individual, standing at the origin
CallFindBestLocation ==
    \E need \in FundamentalNeeds :
        /\ calls_made = 0
        /\ calls_made' = 1
        /\ last_call' = [op |-> "find_best_location_for_need", args |-> <<need>>,
                         result |-> "Ok",
                         out |-> [best |-> find_best_location_for_need(
                                               individual[1], need, building,
                                               location_capability, 0, 0)]]
        /\ UNCHANGED <<simulation_time, individual, building, location_capability,
                       movement_event, need_fulfillment_event>>
        /\ UNCHANGED schedVars
        /\ UNCHANGED autoticker_config

\* the hours at which handle_pressing_need is called
MatchHours == {0, 5}

\* handle_pressing_need for the individual, who is Idle, at current_hour
CallHandlePressingNeed ==
    \E need \in FundamentalNeeds, current_hour \in MatchHours :
    \E handled \in { handle_pressing_need(individual[1], need, current_hour,
                                          building, location_capability,
                                          need_fulfillment_event) } :
        /\ calls_made = 0
        /\ calls_made' = 1
        /\ individual' = << handled.individual >>
        /\ need_fulfillment_event' = handled.need_fulfillment_event
        /\ last_call' = [op |-> "handle_pressing_need", args |-> <<need, current_hour>>,
                         result |-> IF handled.ok THEN "Ok" ELSE "Err",
                         out |-> [before |-> individual[1], target |-> handled.target,
                                  action |-> handled.action]]
        /\ UNCHANGED <<simulation_time, building, location_capability, movement_event>>
        /\ UNCHANGED schedVars
        /\ UNCHANGED autoticker_config

MatchSpec == MatchInit /\ [][CallFindBestLocation \/ CallHandlePressingNeed]_vars

(***************************************************************************)
(* The agent engine with two residents: a workplace and a home for one,    *)
(* and two individuals created at hour 0 without a home, who are at        *)
(* building 1 and have not been ticked since.                              *)
(***************************************************************************)
CrowdPlan == << <<"Workplace", 10, 0, 0>>, <<"Home", 1, 5, 0>> >>

CrowdInit ==
    /\ NoScheduler
    /\ \E h \in StartHours :
           simulation_time = skip_hours(toggle_simulation(NewSimulationTime), h).time
    /\ \E town \in { BuiltTown(CrowdPlan, Len(CrowdPlan)) } :
           /\ building = town.building
           /\ location_capability = town.location_capability
    /\ individual = << NewIndividual(1, None, None, 0), NewIndividual(2, None, None, 0) >>
    /\ movement_event = << >>
    /\ need_fulfillment_event = << >>
    /\ autoticker_config = NoRecord
    /\ calls_made = 0
    /\ last_call = NoCall

CrowdSpec == CrowdInit /\ [][AgentNext]_vars

(***************************************************************************)
(* The reducers called for records that are not there: no scheduler_config *)
(* row has been inserted, and update_individual_needs is given ids with    *)
(* and without a row.                                                      *)
(***************************************************************************)
AbsentInit ==
    /\ now = StartNow
    /\ scheduler_config = NoRecord
    /\ game_world \in Catalogs
    /\ \E h \in StartHours :
           simulation_time = skip_hours(toggle_simulation(NewSimulationTime), h).time
    /\ building = Town(Len(TownPlan)).building
    /\ location_capability = Town(Len(TownPlan)).location_capability
    /\ \E r \in Residents : individual = << NewIndividual(1, r[1], r[2], 0) >>
    /\ movement_event = << >>
    /\ need_fulfillment_event = << >>
    /\ autoticker_config = NoRecord
    /\ calls_made = 0
    /\ last_call = NoCall

\* update_individual_needs with an id that has no row
UpdateUnknownIndividual ==
    \E individual_id \in {Len(individual) + 1} : UpdateIndividualNeedsOf(individual_id)

AbsentSpec ==
    AbsentInit /\ [][ \/ RunWorldSimulationBatch
                      \/ SetSchedulerEnabled
                      \/ ConfigureScheduler
                      \/ UpdateIndividualNeeds
                      \/ UpdateUnknownIndividual ]_vars

(***************************************************************************)
(* The autoticker: the reducers of reducers/time.rs called in any order    *)
(* from the empty tables, the wall clock moving between the calls.         *)
(***************************************************************************)
\* the tables before init_simulation
TickerInit ==
    /\ NoScheduler
    /\ NoAgents
    /\ last_call = NoCall

\* a reducer of time.rs returns r: the tables are written when it returns Ok
TickerCall(op, args, r) ==
    /\ calls_made < MaxCalls
    /\ calls_made' = calls_made + 1
    /\ simulation_time' = IF r.ok THEN r.time ELSE simulation_time
    /\ autoticker_config' = IF r.ok THEN r.config ELSE autoticker_config
    /\ last_call' = Returned(op, args, IF r.ok THEN "Ok" ELSE "Err")
    /\ UNCHANGED <<individual, building, location_capability, movement_event,
                   need_fulfillment_event>>
    /\ UNCHANGED schedVars

\* reducer init_simulation: Err when the table has a row
InitSimulation ==
    TickerCall("init_simulation", << >>,
               [ok |-> simulation_time = NoRecord,
                time |-> NewSimulationTime,
                config |-> autoticker_config])

\* reducer toggle_simulation
ToggleSimulation ==
    TickerCall("toggle_simulation", << >>,
               [ok |-> simulation_time # NoRecord,
                time |-> IF simulation_time = NoRecord THEN simulation_time
                         ELSE toggle_simulation(simulation_time),
                config |-> autoticker_config])

\* reducer check_autotick
CheckAutotick ==
    TickerCall("check_autotick", << >>,
               check_autotick(simulation_time, autoticker_config, now))

\* reducer start_autoticker
StartAutoticker ==
    TickerCall("start_autoticker", << >>,
               start_autoticker(simulation_time, autoticker_config, now))

\* reducer stop_autoticker
StopAutoticker ==
    TickerCall("stop_autoticker", << >>,
               stop_autoticker(simulation_time, autoticker_config))

\* reducer set_tick_interval, called with no interval, one below the minimum,
\* one step of the wall clock, two steps
SetTickInterval ==
    \E interval_ms \in {0, MinTickIntervalMs \div 2, ClockStepMs, 2 * ClockStepMs} :
        TickerCall("set_tick_interval", <<interval_ms>>,
                   set_tick_interval(simulation_time, autoticker_config,
                                     interval_ms, now))

TickerSpec ==
    TickerInit /\ [][ClockTick \/ InitSimulation \/ ToggleSimulation
                     \/ CheckAutotick \/ StartAutoticker \/ StopAutoticker
                     \/ SetTickInterval]_vars

(***************************************************************************)
(* The calendar of a world: advance_world_time called on a world created   *)
(* at time 0, by an hour, a day, a season or a cycle, and on a world that  *)
(* does not exist.                                                         *)
(***************************************************************************)
\* one world, created by create_game_world at time 0
CalendarInit ==
    /\ now = StartNow
    /\ scheduler_config = NoRecord
    /\ game_world = << NewGameWorld(1, 0) >>
    /\ NoAgents
    /\ last_call = NoCall

\* reducer advance_world_time
AdvanceWorldTime ==
    \E world_id \in {1, 2}, hours \in {1, 24, 90 * 24, 360 * 24} :
    \E r \in { advance_world_time(game_world, world_id, hours, now, FALSE) } :
        /\ calls_made < MaxCalls
        /\ calls_made' = calls_made + 1
        /\ game_world' = r.gw
        /\ last_call' = Returned("advance_world_time", <<world_id, hours>>,
                                 IF r.ok THEN "Ok" ELSE "Err")
        /\ UNCHANGED <<now, scheduler_config, simulation_time, individual, building,
                       location_capability, movement_event, need_fulfillment_event,
                       autoticker_config>>

CalendarSpec == CalendarInit /\ [][AdvanceWorldTime]_vars

(***************************************************************************)
(* Properties of the scheduler.                                            *)
(***************************************************************************)
\* call c is a run_world_simulation_batch that got past the enabled test
IsBatchRun(c) == c.op = "run_world_simulation_batch" /\ c.out.ran

\* ids of the worlds whose processing call c started
StartedIds(c) == { c.out.worlds[k].id : k \in 1..Len(c.out.worlds) }

\* world w is active, not paused and due at time t
Eligible(w, t) ==
    /\ w.is_active = TRUE
    /\ w.narrative_speed # "Paused"
    /\ w.next_update_ms <= t

\* rows of the table that are eligible at time t
EligibleRows(gw, t) == { i \in 1..Len(gw) : Eligible(gw[i], t) }

\* call c met no Err from any collaborator
NoFailure(c) ==
    \A k \in 1..Len(c.out.worlds) :
        \A n \in 1..Len(c.out.worlds[k].calls) : c.out.worlds[k].calls[n].ok

\* the statistics of the last batch, as stored in scheduler_config
LastRun(config) == config.performance_stats.last_run

\* C1: with batch_size b and d due worlds, a batch call that meets no timeout
\* and no failure processes exactly min(b, d) worlds; every due world it did
\* not take keeps its row (next_update_ms, total_hours) and is still due when
\* the call returns.
C1_BatchTakesMin ==
    [][ (IsBatchRun(last_call') /\ ~last_call'.out.timed_out /\ NoFailure(last_call'))
        => LET b == scheduler_config.batch_size
               due == EligibleRows(game_world, now)
               changed == { i \in due : game_world'[i] # game_world[i] }
               expected == IF b <= Cardinality(due) THEN b ELSE Cardinality(due)
           IN /\ LastRun(scheduler_config').worlds_processed = expected
              /\ Cardinality(changed) = expected
              /\ \A i \in changed :
                     game_world'[i].total_hours > game_world[i].total_hours
              /\ \A i \in due \ changed : Eligible(game_world'[i], now') ]_vars

\* C1 witness: a batch of batch_size worlds was processed while more were due,
\* and a world that was due and not taken is untouched and still due
C1_Witness ==
    /\ IsBatchRun(last_call)
    /\ ~last_call.out.timed_out
    /\ NoFailure(last_call)
    /\ Len(last_call.out.due) > scheduler_config.batch_size
    /\ Len(last_call.out.worlds) = scheduler_config.batch_size
    /\ \E i \in 1..Len(game_world) :
           /\ game_world[i].id \notin StartedIds(last_call)
           /\ game_world[i].total_hours = 0
           /\ Eligible(game_world[i], last_call.out.start)
           /\ Eligible(game_world[i], now)

SubsystemFailed(e) ==
    \E n \in 1..Len(e.calls) : e.calls[n].sys # "advance_world_time" /\ ~e.calls[n].ok

\* C3: every subsystem failure of a world is counted: after a batch,
\* errors_encountered is at least the number of started worlds that met a
\* subsystem failure (one of two worlds failing in political-event generation
\* gives errors_encountered = 1 and worlds_processed = 2).
C3_SubsystemFailuresCounted ==
    IsBatchRun(last_call)
    => LET failed == { k \in 1..Len(last_call.out.worlds) :
                          SubsystemFailed(last_call.out.worlds[k]) }
       IN LastRun(scheduler_config).errors_encountered >= Cardinality(failed)

\* C4: every active, unpaused, due world is eventually processed by a batch,
\* also when more than batch_size worlds are due at every call and the worlds
\* processed earlier are due again before the next call.
C4_NoStarvation ==
    \A id \in 1..NumWorlds :
        [](Eligible(game_world[id], now)
           => <>(IsBatchRun(last_call) /\ id \in StartedIds(last_call)))

\* C5: no world of a batch is started once the elapsed time exceeds
\* max_processing_time_ms; the worlds not started keep their rows and are
\* still due when the call returns.
C5_TimeoutStopsBatch ==
    [][ IsBatchRun(last_call')
        => LET max_ms == scheduler_config.max_processing_time_ms
               out == last_call'.out
               started == StartedIds(last_call')
           IN /\ \A k \in 1..Len(out.worlds) : out.worlds[k].at - now <= max_ms
              /\ \A i \in 1..Len(game_world) :
                     game_world'[i] # game_world[i]
                     => game_world'[i].last_update_ms - now <= max_ms
              /\ \A i \in 1..Len(game_world) :
                     game_world[i].id \notin started
                     => /\ game_world'[i] = game_world[i]
                        /\ Eligible(game_world[i], now)
                           => Eligible(game_world'[i], now') ]_vars

\* C5 witness: a batch was cut by the timeout, and a world of the batch that
\* was not started is untouched and still due
C5_Witness ==
    /\ IsBatchRun(last_call)
    /\ last_call.out.timed_out
    /\ Len(last_call.out.worlds) < Len(last_call.out.batch)
    /\ now - last_call.out.start > scheduler_config.max_processing_time_ms
    /\ \E k \in 1..Len(last_call.out.batch), i \in 1..Len(game_world) :
           /\ game_world[i].id = last_call.out.batch[k]
           /\ game_world[i].id \notin StartedIds(last_call)
           /\ game_world[i].total_hours = 0
           /\ Eligible(game_world[i], now)

\* C6: no step advances, or calls a collaborator for, a world that is
\* inactive, Paused or not yet due; the total_hours of a Paused world never
\* change.
C6_OnlyEligibleWorlds ==
    [][ \A i \in 1..Len(game_world) :
          LET w == game_world[i] IN
          /\ (~w.is_active \/ w.narrative_speed = "Paused" \/ w.next_update_ms > now)
             => /\ game_world'[i] = w
                /\ IsBatchRun(last_call') => w.id \notin StartedIds(last_call')
          /\ w.narrative_speed = "Paused"
             => game_world'[i].total_hours = w.total_hours ]_vars

\* C6 witness: a batch processed some world and passed over a Paused one
C6_Witness ==
    /\ IsBatchRun(last_call)
    /\ Len(last_call.out.worlds) >= 1
    /\ \E i \in 1..Len(game_world) :
           /\ game_world[i].narrative_speed = "Paused"
           /\ game_world[i].next_update_ms <= last_call.out.start
           /\ game_world[i].id \notin StartedIds(last_call)
           /\ game_world[i].total_hours = 0

\* C7: configure_scheduler called with batch_size = 0, run_interval_ms = 0 or
\* max_processing_time_ms = 0 returns an error and leaves the stored
\* configuration as it was.
C7_ZeroConfigRejected ==
    [][ (last_call'.op = "configure_scheduler"
         /\ \E k \in 1..3 : last_call'.args[k] = 0)
        => /\ last_call'.result = "Err"
           /\ scheduler_config' = scheduler_config ]_vars

(***************************************************************************)
(* Properties of the agent engine.  They are checked under AgentSpec.      *)
(***************************************************************************)
\* the step is a call of update_individual_needs for the individual in row i
IsTickOf(i) ==
    /\ i \in 1..Len(individual)
    /\ last_call'.op = "update_individual_needs"
    /\ last_call'.args = <<individual[i].id>>
    /\ calls_made' = calls_made + 1

\* row i is in a status whose until_hour has come
StatusDue(i) ==
    /\ individual[i].status.kind # "Idle"
    /\ individual[i].status.until_hour <= simulation_time.current_hour

\* row i is in a transit whose arrival hour has come
ArrivalDue(i) == StatusDue(i) /\ individual[i].status.kind = "InTransit"

\* the step moved row i to the target of its transit
MovedToTarget(i) ==
    individual'[i].current_location_id = individual[i].status.target_location

\* the step logged one movement, to the target of the transit of row i
LoggedOneArrival(i) ==
    /\ Len(movement_event') = Len(movement_event) + 1
    /\ SubSeq(movement_event', 1, Len(movement_event)) = movement_event
    /\ movement_event'[Len(movement_event')].individual_id = individual[i].id
    /\ movement_event'[Len(movement_event')].to_location_id =
           individual[i].status.target_location

\* the step left the place of row i alone and logged no movement
NoMoveApplied(i) ==
    /\ individual'[i].current_location_id = individual[i].current_location_id
    /\ movement_event' = movement_event

\* C8 as stated: a tick of an agent InTransit to T whose arrival hour has come
\* ends in Idle at T, and the move is applied once: that tick logs one
\* arrival, and a tick of an agent not in a due transit moves nothing.
C8_ArrivalEndsTickIdle ==
    [][ \A i \in 1..Len(individual) :
            IsTickOf(i) =>
                IF ArrivalDue(i)
                THEN /\ individual'[i].status.kind = "Idle"
                     /\ MovedToTarget(i)
                     /\ LoggedOneArrival(i)
                ELSE NoMoveApplied(i) ]_vars

\* C8 amended: a tick of an agent InTransit to T whose arrival hour has come
\* moves it to T and takes it to Idle in the status match, then evaluates its
\* pressing need in the same tick, so that it ends the tick at T either Idle
\* or in a status begun in that tick, which expires after the current hour;
\* the move is applied once: that tick logs one arrival, and a tick of an
\* agent not in a due transit moves nothing.
C8_ArrivalThenNeedEvaluation ==
    [][ \A i \in 1..Len(individual) :
            IsTickOf(i) =>
                IF ArrivalDue(i)
                THEN /\ last_call'.result = "Ok"
                     /\ last_call'.out.ticked
                     /\ last_call'.out.arrived
                     /\ last_call'.out.after_expiry = Idle
                     /\ MovedToTarget(i)
                     /\ LoggedOneArrival(i)
                     /\ \/ individual'[i].status.kind = "Idle"
                        \/ individual'[i].status.until_hour >
                               simulation_time.current_hour
                ELSE NoMoveApplied(i) ]_vars

\* an agent has arrived where its transit led and has begun an action there
C8_Witness ==
    /\ last_call.op = "update_individual_needs"
    /\ last_call.out # NoRecord
    /\ last_call.out.ticked
    /\ last_call.out.arrived
    /\ last_call.out.before.status.kind = "InTransit"
    /\ individual[1].current_location_id = last_call.out.before.status.target_location
    /\ individual[1].status.kind \in {"Eating", "UsingFacilities", "Sleeping"}
    /\ Len(movement_event) >= 1

\* C9: a tick of an agent in a non-Idle status whose expiry hour has come
\* runs, and its status match leaves the agent Idle before the pressing need
\* is evaluated; a status it holds after the tick was begun in that tick.
C9_ExpiredStatusGoesIdle ==
    [][ \A i \in 1..Len(individual) :
            (IsTickOf(i) /\ StatusDue(i)) =>
                /\ last_call'.result = "Ok"
                /\ last_call'.out.ticked
                /\ last_call'.out.after_expiry = Idle
                /\ \/ individual'[i].status.kind = "Idle"
                   \/ individual'[i].status.until_hour >
                          simulation_time.current_hour ]_vars

\* a tick at the very hour an action status expires has taken the agent out
\* of it
C9_Witness ==
    /\ last_call.op = "update_individual_needs"
    /\ last_call.out # NoRecord
    /\ last_call.out.ticked
    /\ last_call.out.before.status.kind \in {"Eating", "UsingFacilities", "Sleeping"}
    /\ last_call.out.before.status.until_hour = simulation_time.current_hour
    /\ last_call.out.after_expiry = Idle

\* the need scalars of a row other than income
NeedScalars(self) ==
    << self.food_water, self.environment, self.intimacy, self.rest, self.waste,
       self.threat, self.stress, self.safety, self.relationship,
       self.social_interaction, self.community, self.achievements,
       self.progression >>

\* C10: every stored need scalar other than income lies in [0, NEED_MAX] and
\* income lies in [0, INCOME_MAX], whatever ticks have been made.
C10_NeedsStayInRange ==
    \A i \in 1..Len(individual) :
        /\ \A k \in 1..Len(NeedScalars(individual[i])) :
               /\ NeedScalars(individual[i])[k] >= 0
               /\ NeedScalars(individual[i])[k] <= NEED_MAX
        /\ individual[i].income >= 0
        /\ individual[i].income <= INCOME_MAX

(***************************************************************************)
(* Properties of the functions of systems/needs.rs.  They are checked      *)
(* under NeedsSpec.                                                        *)
(***************************************************************************)
\* the scalars of a row are within their bounds
WithinBounds(self) ==
    /\ \A k \in 1..Len(NeedScalars(self)) :
           NeedScalars(self)[k] >= 0 /\ NeedScalars(self)[k] <= NEED_MAX
    /\ self.income >= 0 /\ self.income <= INCOME_MAX
    /\ self.community >= 0 /\ 3 * self.community <= NEED_MAX

\* C11: update_needs, for any hours_passed >= 1, any status and any location,
\* takes a row whose scalars are within bounds to a row with every need
\* scalar in [0, NEED_MAX], income in [0, INCOME_MAX] and community in
\* [0, NEED_MAX / 3].
C11_UpdateNeedsKeepsBounds ==
    (/\ last_call.op = "update_needs"
     /\ last_call.args[1] >= 1
     /\ WithinBounds(last_call.out.before)) => WithinBounds(individual[1])

\* a day has passed for a row that had no food left and waste at its
\* maximum, at work with the highest income: each stays at its bound
C11_Witness ==
    /\ last_call.op = "update_needs"
    /\ last_call.args[1] = 24
    /\ WithinBounds(last_call.out.before)
    /\ last_call.out.before.food_water = 0
    /\ last_call.out.before.waste = NEED_MAX
    /\ last_call.out.before.status.kind = "Working"
    /\ last_call.out.before.income = INCOME_MAX
    /\ is_need_level_active(last_call.out.before, 2)
    /\ individual[1].food_water = 0
    /\ individual[1].waste = NEED_MAX
    /\ individual[1].income = INCOME_MAX

\* C12: tier 1 is always active, and a tier n in 2..5 is active only if tier
\* n - 1 is.
C12_TiersAreNested ==
    last_call.op = "is_need_level_active" =>
        /\ last_call.out[1]
        /\ \A n \in 2..5 : last_call.out[n] => last_call.out[n - 1]

\* a row whose tier-2 scalars are adequate while its tier-1 scalars are not:
\* tier 2 is inactive, and so is every tier above it
C12_Witness ==
    /\ last_call.op = "is_need_level_active"
    /\ get_level_2_adequacy_x4(individual[1]) >= 4 * NEED_ADEQUATE
    /\ get_level_1_adequacy_x5(individual[1]) < 5 * NEED_ADEQUATE
    /\ last_call.out[1]
    /\ \A n \in 2..5 : ~last_call.out[n]

\* the needs of a row that cross their critical threshold, each with its
\* rank in the static priority order, its kind and its urgency
QualifyingNeeds(self) ==
    { q \in
        { [rank |-> 1, need |-> "Waste", urgency |-> self.waste * WASTE_HIGH,
           crossed |-> self.waste > WASTE_CRITICAL],
          [rank |-> 2, need |-> "Consumption",
           urgency |-> (NEED_MAX - self.food_water) * FOOD_CRITICAL,
           crossed |-> self.food_water < NEED_CRITICAL_LOW],
          [rank |-> 3, need |-> "Rest",
           urgency |-> (NEED_MAX - self.rest) * REST_CRITICAL,
           crossed |-> self.rest < NEED_CRITICAL_LOW],
          [rank |-> 4, need |-> "Environment",
           urgency |-> (NEED_MAX - self.safety) * SAFETY_LOW,
           crossed |-> /\ self.safety < NEED_CRITICAL_LOW
                       /\ get_level_1_adequacy_x5(self) >= 5 * NEED_ADEQUATE],
          [rank |-> 5, need |-> "Environment",
           urgency |-> (NEED_MAX - self.environment) * ENVIRONMENT_LOW,
           crossed |-> self.environment < NEED_CRITICAL_LOW],
          [rank |-> 6, need |-> "Connection",
           urgency |-> (COMMUNITY_TARGET - self.community) * SOCIAL_NEEDS,
           crossed |-> /\ self.community < COMMUNITY_LOW
                       /\ get_level_1_adequacy_x5(self) >= 5 * NEED_ADEQUATE
                       /\ get_level_2_adequacy_x4(self) >= 4 * NEED_ADEQUATE] } :
        q.crossed }

\* those of them whose urgency is above NEED_URGENT
UrgentNeeds(self) == { q \in QualifyingNeeds(self) : q.urgency > NEED_URGENT }

\* C13: get_most_pressing_need returns none when no qualifying need has an
\* urgency above 60; otherwise it returns the kind and urgency of a
\* qualifying need, the urgency being above 60 and the greatest of all.
C13_MostPressingIsMaximal ==
    last_call.op = "get_most_pressing_need" =>
        LET urgent == UrgentNeeds(individual[1])
            pressing == last_call.out.pressing
        IN IF urgent = {} THEN pressing = NoRecord
           ELSE /\ pressing # NoRecord
                /\ pressing.key > NEED_URGENT
                /\ \E q \in urgent :
                       q.need = pressing.need /\ q.urgency = pressing.key
                /\ \A q \in urgent : q.urgency <= pressing.key

\* food and environment have both crossed their thresholds, with different
\* urgencies, and the more urgent of the two was returned
C13_Witness ==
    /\ last_call.op = "get_most_pressing_need"
    /\ individual[1].food_water = 0
    /\ individual[1].environment < NEED_CRITICAL_LOW
    /\ individual[1].waste = 0
    /\ individual[1].rest = NEED_MAX
    /\ last_call.out.pressing # NoRecord
    /\ last_call.out.pressing.need = "Consumption"
    /\ last_call.out.pressing.key = NEED_MAX * FOOD_CRITICAL

\* C14: when several qualifying needs share the greatest urgency,
\* get_most_pressing_need returns the one that ranks highest in the static
\* priority order (waste, food, rest, safety, environment, social).
C14_TiesGoToHigherRank ==
    last_call.op = "get_most_pressing_need" =>
        LET urgent == UrgentNeeds(individual[1])
            top == { q \in urgent : \A r \in urgent : r.urgency <= q.urgency }
        IN top # {} =>
               /\ last_call.out.pressing # NoRecord
               /\ \E q \in top :
                      /\ \A r \in top : q.rank <= r.rank
                      /\ last_call.out.pressing.need = q.need

(***************************************************************************)
(* Properties of the matcher, find_best_location_for_need (MatchSpec).     *)
(***************************************************************************)
\* the building row with the id building_id
BuildingById(building_id) ==
    CHOOSE place \in { building[i] : i \in 1..Len(building) } : place.id = building_id

\* the capability row carrying the id building_id
OwnCapability(building_id) ==
    CHOOSE location \in { location_capability[i] : i \in 1..Len(location_capability) } :
        location.building_id = building_id

AtCapacity(place) == place.current_occupants >= place.max_capacity

Matched == last_call.op = "find_best_location_for_need"

\* C15: find_best_location_for_need never returns a building whose
\* current_occupants is at or above its max_capacity, and it does return one
\* when a pair of the slices is below capacity and can fulfil the need: with a
\* restaurant A at capacity and a restaurant B at 3 occupants, an agent with
\* food_water = 10, whose most pressing need is Consumption with an urgency above
\* the urgent threshold, is matched to B.
C15_NeverMatchedToFullBuilding ==
    Matched =>
        LET need == last_call.args[1]
            best == last_call.out.best
        IN /\ best # NoRecord => ~AtCapacity(BuildingById(best.id))
           /\ (\E i \in 1..Len(building) :
                   /\ ~AtCapacity(building[i])
                   /\ can_fulfill(individual[1], need, building[i],
                                  location_capability[i]))
                => best # NoRecord
           /\ individual[1].food_water = 10 * Unit
                => /\ get_most_pressing_need(individual[1]) # NoRecord
                   /\ get_most_pressing_need(individual[1]).need = "Consumption"
                   /\ get_most_pressing_need(individual[1]).key > NEED_URGENT

\* restaurant A, the nearer one, is at capacity, restaurant B has 3 occupants, and
\* the hungry agent is matched to B
C15_Witness ==
    /\ Matched
    /\ last_call.args[1] = "Consumption"
    /\ individual[1].food_water = 10 * Unit
    /\ building[1].building_type = "Restaurant" /\ AtCapacity(building[1])
    /\ building[2].building_type = "Restaurant" /\ building[2].current_occupants = 3
    /\ building[1].location_x < building[2].location_x
    /\ OwnCapability(1).provides_food /\ OwnCapability(2).provides_food
    /\ last_call.out.best # NoRecord
    /\ last_call.out.best.id = building[2].id

\* C16: for the slices in any order, the building find_best_location_for_need
\* returns for a need is one whose own capability row, the one carrying its id, can
\* fulfil that need.
C16_MatchedBuildingCanFulfil ==
    (Matched /\ last_call.out.best # NoRecord) =>
        can_fulfill(individual[1], last_call.args[1],
                    BuildingById(last_call.out.best.id),
                    OwnCapability(last_call.out.best.id))

\* the slices hold, at the same position, a building and its own capability row
Aligned ==
    \A i \in 1..Len(building) : location_capability[i].building_id = building[i].id

\* the positions of the candidates that qualify for the need
Qualifying(need) ==
    { i \in 1..Len(building) :
        /\ ~AtCapacity(building[i])
        /\ can_fulfill(individual[1], need, building[i], location_capability[i]) }

\* the score of the building at position i, seen from the origin
ScoreAt(i) == total_score(individual[1], building[i], location_capability[i], 0, 0)

\* C17: among the qualifying candidates find_best_location_for_need returns one
\* with the maximum score, the one with the lowest id when several share the
\* maximum, and none when no candidate qualifies (slices aligned by position).
C17_MaximumScoreLowestId ==
    (Matched /\ Aligned) =>
        LET need == last_call.args[1]
            best == last_call.out.best
        IN IF Qualifying(need) = {}
           THEN best = NoRecord
           ELSE /\ best # NoRecord
                /\ \E i \in Qualifying(need) :
                       /\ building[i].id = best.id
                       /\ \A j \in Qualifying(need) :
                              /\ ScoreAt(j) <= ScoreAt(i)
                              /\ ScoreAt(j) = ScoreAt(i)
                                   => building[i].id <= building[j].id

(***************************************************************************)
(* Occupancy (CrowdSpec).                                                  *)
(***************************************************************************)
\* the individuals that are at the building with the id building_id
OccupantsOf(building_id) ==
    { i \in 1..Len(individual) : individual[i].current_location_id = building_id }

\* a movement to the building has been logged: an agent matched to it has arrived
AssignedInto(building_id) ==
    \E k \in 1..Len(movement_event) : movement_event[k].to_location_id = building_id

\* C18: after any sequence of ticks of any number of agents, every building an
\* agent has been assigned into has a current_occupants that is the number of
\* agents that are there now, and that number is at most its max_capacity.
C18_OccupancyWithinCapacity ==
    \A b \in 1..Len(building) :
        AssignedInto(building[b].id) =>
            /\ building[b].current_occupants = Cardinality(OccupantsOf(building[b].id))
            /\ Cardinality(OccupantsOf(building[b].id)) <= building[b].max_capacity

(***************************************************************************)
(* Properties of one world's tick (Spec).                                  *)
(***************************************************************************)
\* the subsystems of a tick, in the order the tick is to invoke them
TickOrder ==
    << "update_market_prices", "generate_economic_events", "update_faction_status",
       "generate_political_events", "process_political_events",
       "update_climate_conditions", "generate_natural_events",
       "process_natural_events" >>

\* those invoked when the hour is the first of a day, after the others
DailyOrder ==
    << "update_seasonal_activities", "update_phenological_phases",
       "periodic_enonomics_sync" >>

\* the names in the sequence of names `order`
NamesOf(order) == { order[k] : k \in 1..Len(order) }

\* the subsystems among the calls of a tick, in the order they were invoked
InvokedSubsystems(calls) ==
    LET kept == SelectSeq(calls, LAMBDA c : c.sys \in NamesOf(TickOrder \o DailyOrder))
    IN [k \in 1..Len(kept) |-> kept[k].sys]

\* the worlds processed by the batch that has just returned
ProcessedWorlds ==
    IF last_call.op = "run_world_simulation_batch" /\ last_call.out.ran
    THEN last_call.out.worlds ELSE << >>

\* C19: within one world's tick the subsystems are invoked in the fixed order
\* economic update, economic-event generation, political status update,
\* political-event generation, political-event resolution, climate update,
\* natural-event generation, natural-event resolution, then, on the first hour of
\* a day, the seasonal and phenological updates and the external sync; a
\* subsystem that fails neither skips nor reorders the later ones.
C19_SubsystemsInFixedOrder ==
    \A k \in 1..Len(ProcessedWorlds) :
        ProcessedWorlds[k].ok =>
            InvokedSubsystems(ProcessedWorlds[k].calls)
              = TickOrder \o (IF ProcessedWorlds[k].current_hour % 24 = 0
                              THEN DailyOrder ELSE << >>)

\* a tick on the first hour of a day in which political-event generation failed
\* and the subsystems after it were invoked all the same
C19_Witness ==
    \E k \in 1..Len(ProcessedWorlds) :
        LET calls == ProcessedWorlds[k].calls IN
        /\ ProcessedWorlds[k].ok
        /\ ProcessedWorlds[k].current_hour % 24 = 0
        /\ \E i, j \in 1..Len(calls) :
               /\ i < j
               /\ calls[i].sys = "generate_political_events" /\ ~calls[i].ok
               /\ calls[j].sys = "periodic_enonomics_sync" /\ calls[j].ok

\* the hours a world is to be advanced by, for each narrative speed
HoursPerSpeed == [Paused |-> 0, Slow |-> 1, Normal |-> 24, Fast |-> 168]

\* C20: a batch advances the total_hours of each world it processes by exactly
\* 0 (Paused), 1 (Slow), 24 (Normal) or 168 (Fast), once, and leaves the others'
\* as they were; the current hour handed to the subsystems of a world is the
\* total_hours stored for that world after the advance.
C20_AdvanceBySpeed ==
    [][ IsBatchRun(last_call')
        => \A i \in 1..Len(game_world) :
               LET started == { k \in 1..Len(last_call'.out.worlds) :
                                  last_call'.out.worlds[k].id = game_world[i].id }
                   advanced == { k \in started : last_call'.out.worlds[k].ok }
               IN /\ Cardinality(started) <= 1
                  /\ game_world'[i].total_hours
                       = game_world[i].total_hours
                         + (IF advanced = {} THEN 0
                            ELSE HoursPerSpeed[game_world[i].narrative_speed])
                  /\ game_world[i].narrative_speed = "Paused"
                       => game_world'[i].total_hours = game_world[i].total_hours
                  /\ \A k \in advanced :
                         /\ last_call'.out.worlds[k].current_hour
                              = game_world'[i].total_hours
                         /\ \E n \in 1..Len(last_call'.out.worlds[k].calls) :
                                last_call'.out.worlds[k].calls[n].sys
                                  = "update_market_prices" ]_vars

\* a batch has advanced a Slow world by 1 hour and a Normal world by 24, and the
\* hours handed to their subsystems are the stored ones
C20_Witness ==
    /\ IsBatchRun(last_call)
    /\ \E i, j \in 1..Len(game_world) :
           /\ game_world[i].narrative_speed = "Slow" /\ game_world[i].total_hours = 1
           /\ game_world[j].narrative_speed = "Normal" /\ game_world[j].total_hours = 24
           /\ \E k, m \in 1..Len(last_call.out.worlds) :
                  /\ last_call.out.worlds[k].id = game_world[i].id
                  /\ last_call.out.worlds[k].ok
                  /\ last_call.out.worlds[k].current_hour = 1
                  /\ last_call.out.worlds[m].id = game_world[j].id
                  /\ last_call.out.worlds[m].ok
                  /\ last_call.out.worlds[m].current_hour = 24

(***************************************************************************)
(* Properties of handle_pressing_need (MatchSpec).                         *)
(***************************************************************************)
Handled == last_call.op = "handle_pressing_need"

\* C21: an agent without a home never enters Sleeping.  Where Sleep would be the
\* action for its pressing need (Rest at any building, Environment at the building
\* matched when the agent stands in it) handle_pressing_need returns Ok and leaves
\* the agent Idle, its row unchanged and no fulfilment logged.
C21_HomelessNeverSleeps ==
    (Handled /\ last_call.out.before.home_id = None) =>
        LET need == last_call.args[1]
            before == last_call.out.before
        IN /\ last_call.result = "Ok"
           /\ individual[1].status.kind # "Sleeping"
           /\ last_call.out.action # "Sleep"
           /\ (\/ need = "Rest"
               \/ (need = "Environment"
                   /\ last_call.out.target \in {None, before.current_location_id}))
                => /\ individual[1] = before
                   /\ individual[1].status = Idle
                   /\ need_fulfillment_event = << >>

\* a homeless agent with a Rest need stood in a building that provides rest, and
\* was left Idle
C21_Witness ==
    /\ Handled
    /\ last_call.out.before.home_id = None
    /\ last_call.args[1] = "Rest"
    /\ OwnCapability(last_call.out.before.current_location_id).provides_rest
    /\ Aligned
    /\ last_call.result = "Ok"
    /\ individual[1].status = Idle

(***************************************************************************)
(* Properties of the decay step beyond its bounds (NeedsSpec).             *)
(***************************************************************************)
Decayed == last_call.op = "update_needs"

\* rows a and b agree on the scalars of level 2
SameLevel2(a, b) ==
    /\ a.threat = b.threat /\ a.income = b.income
    /\ a.stress = b.stress /\ a.safety = b.safety

\* the scalars of the levels that are inactive on row `tested` are the same in
\* rows a and b
InactiveLevelsUntouched(tested, a, b) ==
    /\ ~is_need_level_active(tested, 2) => SameLevel2(a, b)
    /\ ~is_need_level_active(tested, 3) => a.community = b.community
    /\ ~is_need_level_active(tested, 5) => a.progression = b.progression

\* C22 as stated: when a level is inactive on the row the step is given,
\* update_needs leaves that level's scalars unchanged (level 2: threat, income,
\* stress, safety; level 3: community; level 5: progression).
C22_InactiveOnEntryUntouched ==
    Decayed =>
        InactiveLevelsUntouched(last_call.out.before, individual[1],
                                last_call.out.before)

\* C22 amended: update_needs tests a level after it has updated the levels below
\* it, and the later updates of the step change none of the scalars the test
\* reads, so that the test's outcome is the level's activity on the row the step
\* leaves; when a level is inactive there, its scalars are unchanged.
C22_InactiveWhenTestedUntouched ==
    Decayed =>
        InactiveLevelsUntouched(individual[1], individual[1], last_call.out.before)

\* level 2 was active on entry, the level-1 decay of a day made it inactive, and
\* the scalars of level 2 were left alone although a day in a workplace wears
\* them down
C22_Witness ==
    /\ Decayed
    /\ last_call.args[1] = 24
    /\ is_need_level_active(last_call.out.before, 2)
    /\ ~is_need_level_active(individual[1], 2)
    /\ SameLevel2(individual[1], last_call.out.before)
    /\ ~SameLevel2(update_safety(update_stress(update_income(update_threat(
                       individual[1], 24, last_call.args[2]), 24), 24), 24,
                       last_call.args[2]),
                   individual[1])

(***************************************************************************)
(* Properties of successive batches (Spec).  A reducer runs as one         *)
(* transaction, so that two invocations of run_world_simulation_batch come *)
(* no closer than one starting when the other has returned.                *)
(***************************************************************************)
\* ids of the worlds call c advanced
AdvancedIds(c) ==
    { c.out.worlds[k].id : k \in { n \in 1..Len(c.out.worlds) : c.out.worlds[n].ok } }

\* the entry of call c for the world with the id world_id
EntryOf(c, world_id) ==
    c.out.worlds[CHOOSE k \in 1..Len(c.out.worlds) : c.out.worlds[k].id = world_id]

tables ==
    <<scheduler_config, game_world, simulation_time, individual, building,
      location_capability, movement_event, need_fulfillment_event,
      autoticker_config>>

\* C24: a missing record is reported and never defaulted:
\* run_world_simulation_batch, set_scheduler_enabled and configure_scheduler
\* called when there is no scheduler_config row return Err and insert or change
\* no row, and update_individual_needs for an id without a row returns Err and
\* changes nothing.
C24_MissingRecordReported ==
    [][ /\ (/\ scheduler_config = NoRecord
            /\ last_call'.op \in {"run_world_simulation_batch", "set_scheduler_enabled",
                                  "configure_scheduler"})
             => /\ last_call'.result = "Err"
                /\ UNCHANGED tables
        /\ (/\ last_call'.op = "update_individual_needs"
            /\ last_call'.args[1] \notin IndividualIds)
             => /\ last_call'.result = "Err"
                /\ UNCHANGED tables ]_vars

\* update_individual_needs was called for an id without a row while the clock
\* had moved on since the individual of the table was last updated, and returned
\* Err; there is no scheduler_config row
C24_Witness ==
    /\ last_call.op = "update_individual_needs"
    /\ last_call.args[1] \notin IndividualIds
    /\ last_call.result = "Err"
    /\ scheduler_config = NoRecord
    /\ simulation_time # NoRecord
    /\ individual[1].last_update_hour < simulation_time.current_hour

\* C25: is_need_level_active(n) for n < 1 or n > 5 is reported as invalid input:
\* its outcome is neither of the answers "active" and "inactive" that the levels
\* 1 to 5 get.
C25_InvalidLevelReported ==
    last_call.op = "is_need_level_active" =>
        \A level \in DOMAIN last_call.out :
            (level < 1 \/ level > 5) => last_call.out[level] \notin BOOLEAN

\* the urgent needs of level 1 (waste, food, rest, environment) and those of the
\* levels above it (safety, community)
UrgentLevel1(self) == { q \in UrgentNeeds(self) : q.rank \in {1, 2, 3, 5} }
UrgentAbove(self) == { q \in UrgentNeeds(self) : q.rank \in {4, 6} }

\* C27 as stated: when a need of level 1 and a need of a higher level both
\* qualify, get_most_pressing_need returns the kind of a qualifying need of
\* level 1.
C27_LowerTierOutranks ==
    last_call.op = "get_most_pressing_need" =>
        LET level1 == UrgentLevel1(individual[1])
            above == UrgentAbove(individual[1])
            pressing == last_call.out.pressing
        IN (level1 # {} /\ above # {}) =>
               /\ pressing # NoRecord
               /\ \E q \in level1 : q.need = pressing.need

\* C27 amended: when a need of level 1 and a need of a higher level both qualify,
\* the more urgent one wins, urgency being deficit times weight.  Safety wins,
\* and (Environment, its urgency) is returned, when its urgency is at least that
\* of every qualifying need of level 1, which waste and food never allow;
\* otherwise the most urgent need of level 1 is returned.  Community never wins.
C27_LowerTierOutranksUnlessLessUrgent ==
    last_call.op = "get_most_pressing_need" =>
        LET level1 == UrgentLevel1(individual[1])
            above == UrgentAbove(individual[1])
            pressing == last_call.out.pressing
            safety == { s \in above : s.rank = 4 /\ \A q \in level1 : q.urgency <= s.urgency }
        IN (level1 # {} /\ above # {}) =>
               /\ pressing # NoRecord
               /\ (\E q \in level1 : q.rank \in {1, 2}) => safety = {}
               /\ IF safety # {}
                  THEN \E s \in safety : pressing = [need |-> s.need, key |-> s.urgency]
                  ELSE \E q \in level1 :
                           /\ pressing = [need |-> q.need, key |-> q.urgency]
                           /\ \A r \in level1 : r.urgency <= q.urgency

\* rest and safety both qualify, rest is the more urgent, and Rest is returned
C27_Witness ==
    /\ last_call.op = "get_most_pressing_need"
    /\ individual[1].rest = 4 * Unit
    /\ individual[1].safety = 5 * Unit
    /\ \E q \in UrgentAbove(individual[1]) : q.rank = 4
    /\ UrgentLevel1(individual[1]) = { [rank |-> 3, need |-> "Rest",
                                        urgency |-> (NEED_MAX - 4 * Unit) * REST_CRITICAL,
                                        crossed |-> TRUE] }
    /\ last_call.out.pressing.need = "Rest"

\* four times the mean of the scalars of level 2, threat and stress inverted
Level2MeanX4(self) ==
    (NEED_MAX - self.threat) + self.income + (NEED_MAX - self.stress) + self.safety

\* C28: the adequacy of level 2 is the arithmetic mean of threat, income, stress
\* and safety, threat and stress inverted (100 - value), and level 3 is active
\* iff level 2 is active and that mean is at least 50.
C28_Level2AdequacyIsMean ==
    last_call.op = "is_need_level_active" =>
        /\ get_level_2_adequacy_x4(individual[1]) = Level2MeanX4(individual[1])
        /\ last_call.out[3]
             <=> (last_call.out[2] /\ Level2MeanX4(individual[1]) >= 4 * NEED_ADEQUATE)

\* a tick of an agent that was Sleeping: the Sleep action that set the status
\* has already added SLEEP_REST_GAIN to its rest
TickedAsleep ==
    /\ last_call.op = "update_individual_needs"
    /\ last_call.out.ticked
    /\ last_call.out.before.status.kind = "Sleeping"

\* C29: one Sleep action raises rest by 64 in total over its 8 hours, before
\* clamping: the gain added on entering Sleeping is not added again as growth
\* per hour while the agent is Sleeping, so the decay step of a sleeping agent
\* leaves its rest no higher than it found it.
C29_SleepGainAppliedOnce ==
    TickedAsleep => last_call.out.decayed.rest <= last_call.out.before.rest

\* the row of the last update_needs with an income that is not critical
WithIncome(self) == [self EXCEPT !.income = INCOME_MAX]

\* C30: in a decay step with level 2 active, an agent whose income is below
\* INCOME_CRITICAL ends the step with a safety no higher than the one it would
\* have with an income of at least 10 in the same location, with the same
\* status and hours: low income increases the loss of safety.
C30_LowIncomeNeverSafer ==
    (/\ Decayed
     /\ is_need_level_active(last_call.out.before, 2)
     /\ last_call.out.before.income < INCOME_CRITICAL)
        => individual[1].safety
             <= update_needs(WithIncome(last_call.out.before),
                             last_call.args[1], last_call.args[2]).safety

\* the tick just made was the arrival of an agent that was InTransit
Arrival ==
    /\ last_call.op = "update_individual_needs"
    /\ last_call.out.ticked
    /\ last_call.out.arrived

\* C31: when an InTransit agent arrives, exactly one movement event is logged
\* for the arrival, from the location the agent departed from, to the target
\* location its status carried, at the hour of the arrival tick.
C31_ArrivalLoggedOnce ==
    [][ (calls_made' = calls_made + 1 /\ Arrival')
          => /\ Len(movement_event') = Len(movement_event) + 1
             /\ \E event \in { movement_event'[Len(movement_event')] } :
                    /\ event.individual_id = last_call'.args[1]
                    /\ event.from_location_id
                         = last_call'.out.before.current_location_id
                    /\ event.to_location_id
                         = last_call'.out.before.status.target_location
                    /\ event.hour = simulation_time.current_hour ]_vars

\* handle_pressing_need chose the building the agent is in
HandledHere ==
    /\ Handled
    /\ last_call.result = "Ok"
    /\ last_call.out.target = last_call.out.before.current_location_id

\* the status the agent is in is `kind`, until `hours` after the call
Entered(kind, hours) ==
    /\ individual[1].status.kind = kind
    /\ individual[1].status.until_hour = last_call.args[2] + hours

\* C32: when the location the matcher chose is the one an Idle agent is in, the
\* agent enters at once the status of its pressing need (Consumption: Eating
\* for 1 hour, Connection: Socializing for 2, Rest: Sleeping for 8, Waste:
\* UsingFacilities for 1, Environment: Sleeping for 8 if the location is its
\* home), expiring at current_hour + duration; Environment away from home
\* leaves it Idle.
C32_ActionAtCurrentLocation ==
    HandledHere =>
        CASE last_call.args[1] = "Consumption" -> Entered("Eating", 1)
          [] last_call.args[1] = "Connection" -> Entered("Socializing", 2)
          [] last_call.args[1] = "Rest" -> Entered("Sleeping", 8)
          [] last_call.args[1] = "Waste" -> Entered("UsingFacilities", 1)
          [] last_call.args[1] = "Environment" ->
                 IF last_call.out.before.home_id = last_call.out.target
                 THEN Entered("Sleeping", 8)
                 ELSE individual[1].status = Idle

C32_Witness ==
    /\ HandledHere
    /\ last_call.args = <<"Connection", 5>>
    /\ individual[1].status.kind = "Socializing"
    /\ individual[1].status.until_hour = 7

\* the seasonal and phenological updates and the external data sync
DailySubsystems == NamesOf(DailyOrder)

\* the subsystems of `names` invoked in the tick `entry` of a world
InvokedOf(entry, names) ==
    { entry.calls[n].sys : n \in 1..Len(entry.calls) } \cap names

\* the total_hours of the world with the id world_id
TotalHoursOf(world_id) ==
    game_world[CHOOSE i \in 1..Len(game_world) : game_world[i].id = world_id]
        .total_hours

\* C33: the seasonal and phenological updates and the external data sync are
\* invoked in a world's tick if and only if the total hours of the world after
\* the advance are a multiple of 24; in every other tick none of them is.
C33_DailySubsystemsOnDayBoundary ==
    \A k \in 1..Len(ProcessedWorlds) :
        ProcessedWorlds[k].ok =>
            InvokedOf(ProcessedWorlds[k], DailySubsystems)
              = IF TotalHoursOf(ProcessedWorlds[k].id) % 24 = 0
                THEN DailySubsystems ELSE {}

\* one batch ticked a world to a day boundary, with the three daily subsystems,
\* and another world to the first hour of a day, without them
C33_Witness ==
    \E k, m \in 1..Len(ProcessedWorlds) :
        /\ ProcessedWorlds[k].ok /\ ProcessedWorlds[m].ok
        /\ TotalHoursOf(ProcessedWorlds[k].id) = 24
        /\ InvokedOf(ProcessedWorlds[k], DailySubsystems) = DailySubsystems
        /\ TotalHoursOf(ProcessedWorlds[m].id) = 1
        /\ InvokedOf(ProcessedWorlds[m], DailySubsystems) = {}

\* the step is a call of run_world_simulation_batch
BatchStep == last_call'.op = "run_world_simulation_batch"

\* the scheduler is initialised and disabled
Disabled == scheduler_config # NoRecord /\ ~scheduler_config.enabled

\* C34: while the scheduler is disabled run_world_simulation_batch processes
\* no world and changes nothing: no world's total_hours or next_update_ms, no
\* timestamp of the last or next run, no statistics.  After
\* set_scheduler_enabled(true) an invocation processes the due worlds again.
C34_DisabledSchedulerIdle ==
    [][ /\ (BatchStep /\ Disabled)
            => /\ last_call'.result = "Ok"
               /\ ~last_call'.out.ran
               /\ game_world' = game_world
               /\ scheduler_config' = scheduler_config
               /\ now' = now
        /\ (/\ BatchStep
            /\ last_call = Returned("set_scheduler_enabled", <<TRUE>>, "Ok"))
            => /\ last_call'.out.ran
               /\ last_call'.out.due
                    = Ids(SelectSeq(game_world, LAMBDA w : Eligible(w, now)))
               /\ last_call'.out.due # << >>
                    => /\ last_call'.out.due[1] \in StartedIds(last_call')
                       /\ scheduler_config'.last_run_ms >= now ]_vars

\* a disabled scheduler was called while worlds it had processed before were due
C34_Witness ==
    /\ Disabled
    /\ last_call.op = "run_world_simulation_batch"
    /\ ~last_call.out.ran
    /\ \E i \in 1..Len(game_world) :
           game_world[i].total_hours > 0 /\ Eligible(game_world[i], now)

(***************************************************************************)
(* Properties of the autoticker (TickerSpec).                              *)
(***************************************************************************)
\* the step is a call of check_autotick
CheckStep == last_call'.op = "check_autotick"

\* the autoticker is enabled and the simulation is running
TickerArmed ==
    /\ simulation_time # NoRecord
    /\ simulation_time.auto_tick_enabled
    /\ simulation_time.is_running

\* the step leaves the clock and the autoticker as they are
TickerUnchanged == UNCHANGED <<simulation_time, autoticker_config>>

\* the step advances the simulated clock by one hour and sets the next tick
\* one interval after the present
TickedOnce ==
    /\ simulation_time'.current_hour = simulation_time.current_hour + 1
    /\ [simulation_time' EXCEPT !.current_hour = 0, !.hour_of_day = 0,
                                !.day_of_week = 0, !.total_days = 0]
         = [simulation_time EXCEPT !.current_hour = 0, !.hour_of_day = 0,
                                   !.day_of_week = 0, !.total_days = 0]
    /\ autoticker_config' # NoRecord
    /\ autoticker_config'.next_tick_time = now + simulation_time.tick_interval_ms

\* C35: check_autotick advances the simulated clock by exactly one hour if and
\* only if auto_tick_enabled and is_running both hold and now >= next_tick_time,
\* and then sets next_tick_time = now + tick_interval_ms; otherwise it changes
\* nothing.  The first check_autotick after start_autoticker ticks at once.
C35_AutotickWhenDue ==
    [][ CheckStep =>
          /\ IF TickerArmed /\ now >= autoticker_config.next_tick_time
             THEN TickedOnce ELSE TickerUnchanged
          /\ (TickerArmed /\ autoticker_config.last_tick_time = 0) => TickedOnce
       ]_vars

\* the autoticker has ticked twice: at its start and, the wall clock having
\* moved on by one interval, again
C35_Witness ==
    /\ last_call = Returned("check_autotick", << >>, "Ok")
    /\ TickerArmed
    /\ simulation_time.current_hour = 2
    /\ autoticker_config.last_tick_time = now
    /\ autoticker_config.next_tick_time = now + simulation_time.tick_interval_ms
    /\ now > StartNow

\* auto_tick_enabled of the simulation_time row, FALSE when there is none
AutoTickEnabled ==
    simulation_time # NoRecord /\ simulation_time.auto_tick_enabled

\* C40: in every state reached through init_simulation, toggle_simulation,
\* start_autoticker, stop_autoticker, set_tick_interval and check_autotick the
\* autoticker_config row exists if and only if auto_tick_enabled is true;
\* start_autoticker when the autoticker is enabled and stop_autoticker when it
\* is not return an error and change nothing.
C40_ConfigIffEnabled ==
    [][ /\ (autoticker_config' # NoRecord) <=> AutoTickEnabled'
        /\ (last_call'.op = "start_autoticker" /\ AutoTickEnabled)
             => (last_call'.result = "Err" /\ TickerUnchanged)
        /\ (last_call'.op = "stop_autoticker" /\ ~AutoTickEnabled)
             => (last_call'.result = "Err" /\ TickerUnchanged)
      ]_vars

\* the autoticker was started, ticked, stopped and started again with another
\* interval, and start_autoticker has just been refused
C40_Witness ==
    /\ last_call = Returned("start_autoticker", << >>, "Err")
    /\ AutoTickEnabled
    /\ simulation_time.current_hour = 1
    /\ simulation_time.tick_interval_ms = ClockStepMs
    /\ autoticker_config # NoRecord
    /\ autoticker_config.last_tick_time = 0

\* the step is a tick of an agent that is busy: its status is not Idle and
\* expires after the present hour
BusyTick ==
    /\ calls_made' = calls_made + 1
    /\ last_call'.op = "update_individual_needs"
    /\ last_call'.out.ticked
    /\ last_call'.out.before.status.kind # "Idle"
    /\ last_call'.out.before.status.until_hour > simulation_time.current_hour

\* the row of the agent the call was made for, after the call
TickedRow == individual'[RowIndex(individual', last_call'.args[1])]

\* C36: an agent in a status other than Idle whose expiry hour is still in the
\* future keeps its status, the payload of the status and its current location
\* across a tick: no pressing need is evaluated and no transition is made
\* before the expiry; only the need scalars decay.
C36_BusyAgentKeepsStatus ==
    [][ BusyTick =>
          /\ TickedRow.status = last_call'.out.before.status
          /\ TickedRow.current_location_id
               = last_call'.out.before.current_location_id
          /\ TickedRow = [last_call'.out.decayed EXCEPT
                             !.last_update_hour = simulation_time.current_hour]
          /\ last_call'.out.need = "None"
          /\ last_call'.out.action = "None"
          /\ UNCHANGED <<movement_event, need_fulfillment_event>> ]_vars

\* a sleeping agent was ticked five hours before it is to wake: it sleeps on
\* where it was, its food and water lower than before
C36_Witness ==
    /\ last_call.op = "update_individual_needs"
    /\ last_call.out.ticked
    /\ last_call.out.before.status.kind = "Sleeping"
    /\ individual[1].status = last_call.out.before.status
    /\ individual[1].status.until_hour >= simulation_time.current_hour + 5
    /\ individual[1].food_water < last_call.out.before.food_water

\* the statuses the need engine puts an agent into
EngineStatuses ==
    {"Idle", "InTransit", "Sleeping", "Eating", "Socializing", "UsingFacilities"}

\* C37: no sequence of update_individual_needs ticks puts an agent into Working
\* or Maintaining: the need engine selects only Sleep, Eat, Socialize or
\* UseFacilities, and the statuses reached from a newly created agent are among
\* Idle, InTransit, Sleeping, Eating, Socializing and UsingFacilities.  ("Move"
\* in the record of a tick is the way to another building, none of the actions.)
C37_NeverWorkingOrMaintaining ==
    /\ \A i \in 1..Len(individual) : individual[i].status.kind \in EngineStatuses
    /\ (last_call.op = "update_individual_needs" /\ last_call.out.ticked)
         => last_call.out.action
              \in {"None", "Move", "Sleep", "Eat", "Socialize", "UseFacilities"}

\* after six ticks and an action chosen for its need of rest the agent sleeps
C37_Witness ==
    /\ calls_made >= 6
    /\ last_call.op = "update_individual_needs"
    /\ last_call.out.ticked
    /\ last_call.out.need = "Rest"
    /\ last_call.out.action = "Sleep"
    /\ individual[1].status.kind = "Sleeping"

\* the step is a call of update_individual_needs that follows at once a call
\* for the same agent, the simulated clock not having moved in between
RepeatedTick ==
    /\ calls_made' = calls_made + 1
    /\ last_call.op = "update_individual_needs"
    /\ last_call'.op = "update_individual_needs"
    /\ last_call'.args = last_call.args

\* C38: calling update_individual_needs twice at the same simulated hour has
\* the effect of calling it once: the second call, the elapsed hours being 0,
\* changes nothing: no decay, no change of status or location, no event logged.
C38_SecondTickSameHourIdle ==
    [][ RepeatedTick =>
          /\ ~last_call'.out.ticked
          /\ last_call'.result = last_call.result
          /\ UNCHANGED <<individual, movement_event, need_fulfillment_event,
                         building, location_capability, simulation_time>> ]_vars

\* an agent that was put to sleep by a tick has been ticked again at the same
\* hour
C38_Witness ==
    /\ last_call.op = "update_individual_needs"
    /\ last_call.result = "Ok"
    /\ ~last_call.out.ticked
    /\ individual[1].status.kind = "Sleeping"
    /\ individual[1].last_update_hour = simulation_time.current_hour
    /\ individual[1].status.until_hour = simulation_time.current_hour + SLEEP_DURATION

(***************************************************************************)
(* Properties of the calendar of a world (CalendarSpec).                   *)
(***************************************************************************)
\* the four seasons, a quarter of the 360 days each
Quarters == <<"Spring", "Summer", "Autumn", "Winter">>

\* the calendar columns of world w agree with its total_hours
CalendarOf(w) ==
    /\ w.current_day = ((w.total_hours \div 24) % 360) + 1
    /\ w.current_day \in 1..360
    /\ w.current_cycle = (w.total_hours \div 24) \div 360
    /\ w.season = Quarters[((w.current_day - 1) \div 90) + 1]

\* C39: after any sequence of advance_world_time calls on a world its
\* total_hours never decreases, current_day = ((total_hours / 24) mod 360) + 1
\* lies in 1..360, current_cycle = (total_hours / 24) / 360, and season is the
\* quarter of current_day (1-90 Spring, 91-180 Summer, 181-270 Autumn, 271-360
\* Winter).
C39_CalendarFollowsTotalHours ==
    [][ \A i \in 1..Len(game_world') :
            /\ game_world'[i].total_hours >= game_world[i].total_hours
            /\ CalendarOf(game_world'[i]) ]_vars

\* a world advanced past its first cycle, to the first day of summer
C39_Witness ==
    /\ last_call.op = "advance_world_time"
    /\ last_call.result = "Ok"
    /\ game_world[1].total_hours = 450 * 24 + 1
    /\ game_world[1].current_cycle = 1
    /\ game_world[1].current_day = 91
    /\ game_world[1].season = "Summer"

====
